---- MODULE Spec2Model ----
(***************************************************************************)
(* Model of the LinkedIn job-collection scraper and of the background      *)
(* scrape job that drives it.                                              *)
(*                                                                         *)
(*   src/linkedin_scraper/scrapers/recommended_jobs.py                     *)
(*       JobCollection, JobCollectionScraper (the collection walker, the   *)
(*       per-page extraction loop, pagination, the detail expander)        *)
(*   src/backend/scraper_service.py                                        *)
(*       job_store, ServiceCallback, run_scrape_task, create_scrape_job    *)
(*                                                                         *)
(* The browser page is the environment: which cards a page holds, how many *)
(* of them the virtualized list has materialized, which pagination         *)
(* controls exist and how a detail panel behaves are chosen                *)
(* nondeterministically from bounded sets.                                 *)
(***************************************************************************)
EXTENDS Integers, Sequences, FiniteSets, TLC

(***************************************************************************)
(* Bounds of the model.                                                    *)
(***************************************************************************)
\* number of distinct job identifiers the site can show
MaxIds == 3
\* largest number of cards one page of the list holds
MaxCards == 2
\* largest value of the limit argument
MaxLimit == 2
\* largest value of the max_pages argument
MaxPages == 2

\* the most records asked for together with their details
MaxDetailLimit == 2

\* the longest card list handed to one extraction pass on its own
MaxParse == 3

\* the most lines of a match-analysis text
MaxLines == 4

(***************************************************************************)
(* Values.  Python's None is the string NoneVal; every Optional[str] of    *)
(* the program is a string of the model.                                   *)
(***************************************************************************)
NoneVal == "<None>"

\* An Optional value that is not a string (a record, a dict) is the empty
\* sequence for None and a one-element sequence otherwise.
Nothing == << >>
Some(v) == <<v>>

\* str(n) for the small naturals the model formats into messages and ids
Digits == <<"0", "1", "2", "3", "4", "5", "6", "7", "8", "9">>

RECURSIVE ToStr(_)
ToStr(n) == IF n < 10 THEN Digits[n + 1]
            ELSE ToStr(n \div 10) \o Digits[(n % 10) + 1]

Min(a, b) == IF a < b THEN a ELSE b

\* a slice that stops one element early
Take_short(s, n) == SubSeq(s, 1, Min(n - 1, Len(s)))

\* s[:n] of a Python list
Take(s, n) == SubSeq(s, 1, Min(n, Len(s)))

\* the elements of a sequence
Range(s) == {s[i] : i \in 1..Len(s)}

(***************************************************************************)
(* JobCollection: the enumeration of collection tokens.                    *)
(***************************************************************************)
\* the members in declaration order (lines 18-64)
JobCollectionMembers == <<
    "recommended", "top-applicant", "easy-apply", "hybrid", "remote-jobs",
    "part-time-jobs", "sustainability", "manufacturing", "defense-and-space",
    "social-impact", "government", "pharmaceuticals", "biotechnology",
    "construction", "real-estate", "restaurants", "retail", "hospitality",
    "financial-services", "transportation-and-logistics",
    "hospitals-and-healthcare", "food-and-beverages", "apparel-and-fashion",
    "museums-historical-sites-and-zoos", "media", "publishing",
    "digital-security", "human-resources", "staffing-and-recruiting",
    "marketing-and-advertising", "civil-eng", "higher-edu", "education",
    "small-business", "volunteer", "non-profits", "human-services",
    "career-growth", "work-life-balance"
>>

JobCollectionValues == Range(JobCollectionMembers)

\* JobCollection.choices()
choices == JobCollectionMembers

\* A submitted collection string is its sequence of characters, so that
\* str.lower() can act on it character by character: an exact token, a
\* spelling of it that differs in case only, a string that is no token in
\* any case, and the empty string.
CollectionInputs == {
    <<"h", "y", "b", "r", "i", "d">>,
    <<"H", "y", "B", "r", "i", "d">>,
    <<"r", "e", "m", "o", "t", "e">>,
    << >>
}

\* the Python string made of a sequence of characters
RECURSIVE PyStr(_)
PyStr(cs) == IF cs = << >> THEN "" ELSE Head(cs) \o PyStr(Tail(cs))

UpperChars == <<"A", "B", "C", "D", "E", "F", "G", "H", "I", "J", "K", "L",
                "M", "N", "O", "P", "Q", "R", "S", "T", "U", "V", "W", "X",
                "Y", "Z">>
LowerChars == <<"a", "b", "c", "d", "e", "f", "g", "h", "i", "j", "k", "l",
                "m", "n", "o", "p", "q", "r", "s", "t", "u", "v", "w", "x",
                "y", "z">>

\* str.lower() of one character
char_lower(c) ==
    IF \E i \in 1..Len(UpperChars) : UpperChars[i] = c
    THEN LowerChars[CHOOSE i \in 1..Len(UpperChars) : UpperChars[i] = c]
    ELSE c

\* str.lower()
str_lower(cs) == [i \in 1..Len(cs) |-> char_lower(cs[i])]

\* An exception is its class and its text; str(e) is the text.
Exc(type, text) == [type |-> type, text |-> text]
NoExc == Exc("none", "")
str_exc(e) == e.text

\* ', '.join(seq)
RECURSIVE str_join(_)
str_join(seq) ==
    IF seq = << >> THEN ""
    ELSE IF Len(seq) = 1 THEN seq[1]
    ELSE seq[1] \o ", " \o str_join(Tail(seq))

\* The outcome of a call that returns a value or raises.
Returned(v) == [ok |-> TRUE, value |-> v, exc |-> NoExc]
Raised(e) == [ok |-> FALSE, value |-> NoneVal, exc |-> e]

\* JobCollection(value): the member with that value, else ValueError
JobCollection(value) ==
    IF value \in JobCollectionValues
    THEN Returned(value)
    ELSE Raised(Exc("ValueError",
                    "'" \o value \o "' is not a valid JobCollection"))

\* JobCollection.from_string
from_string(value) ==
    LET r == JobCollection(PyStr(str_lower(value)))
    IN  IF r.ok THEN r
        ELSE Raised(Exc("ValueError",
                 "Invalid collection: '" \o PyStr(value)
                 \o "'. Valid choices: " \o str_join(choices)))

\* A constructor that falls back to the default collection, as the comment
\* at line 101 considers, instead of raising.
JobCollectionScraper_init_default(collection) ==
    LET r == from_string(collection)
    IN  IF r.ok THEN r ELSE Returned("recommended")

\* JobCollectionScraper.__init__ on a string: self.collection, or the
\* ValueError of the second lookup when from_string has raised
JobCollectionScraper_init(collection) ==
    LET r == from_string(collection)
    IN  IF r.ok THEN r ELSE JobCollection(PyStr(collection))

BASE_URL == "https://www.linkedin.com/jobs/collections/"

\* An address without the trailing slash.
collection_url_bare(value) == BASE_URL \o value

\* self.collection_url
collection_url(value) == BASE_URL \o value \o "/"

(***************************************************************************)
(* The job store and the callback that writes it (scraper_service.py).     *)
(***************************************************************************)
\* uuid4 task identifiers
TaskIds == {"task-1"}

JobStates == {"pending", "starting", "running", "completed", "failed"}

\* ScrapeStatus(id=..., status=..., collection=...) with the field defaults
ScrapeStatus(id, status, coll) ==
    [id |-> id, status |-> status, collection |-> coll, progress |-> 0,
     message |-> NoneVal, jobs_collected |-> 0, error |-> NoneVal]

\* An on_start that records the message but forgets to move the job to
\* running.
ServiceCallback_on_start_keep(store, task_id, scraper_type) ==
    IF task_id \in DOMAIN store
    THEN [store EXCEPT ![task_id].message = "Starting " \o scraper_type \o "..."]
    ELSE store

\* ServiceCallback.on_start
ServiceCallback_on_start(store, task_id, scraper_type) ==
    IF task_id \in DOMAIN store
    THEN [store EXCEPT ![task_id].message = "Starting " \o scraper_type \o "...",
                       ![task_id].status = "running"]
    ELSE store

\* ServiceCallback.on_progress
ServiceCallback_on_progress(store, task_id, message, percent) ==
    IF task_id \in DOMAIN store
    THEN [store EXCEPT ![task_id].message = message,
                       ![task_id].progress = percent]
    ELSE store

\* An on_complete that marks the job completed itself.
ServiceCallback_on_complete_marks(store, task_id, scraper_type, result) ==
    IF task_id \in DOMAIN store
    THEN [store EXCEPT ![task_id].status = "completed"]
    ELSE store

\* ServiceCallback.on_complete: result handling is left to run_scrape_task
ServiceCallback_on_complete(store, task_id, scraper_type, result) == store

\* An exception handler that logs the exception and leaves the record alone.
run_scrape_task_except_log(store, task_id, e) == store

\* An exception handler that marks the job failed but stores the class of
\* the exception instead of its text.
run_scrape_task_except_type(store, task_id, e) ==
    IF task_id \in DOMAIN store
    THEN [store EXCEPT ![task_id].status = "failed",
                       ![task_id].error = e.type]
    ELSE store

\* run_scrape_task, the except branch
run_scrape_task_except(store, task_id, e) ==
    IF task_id \in DOMAIN store
    THEN [store EXCEPT ![task_id].status = "failed",
                       ![task_id].error = str_exc(e)]
    ELSE store

(***************************************************************************)
(* The page: cards, and the records parsed from them.                      *)
(***************************************************************************)
\* the job identifiers the site shows
JobIds == {ToStr(100 + n) : n \in 1..MaxIds}

\* the marker of a locator call that raises instead of answering
RaiseVal == "<raise>"

\* what a text locator finds besides a text: no element, or an element
\* whose reading raises
NoElem == <<NoneVal>>
ElemRaises == <<RaiseVal>>

\* the characters str.strip() removes
Whitespace == {" ", "\t", "\n"}

\* str.lstrip() and str.strip() on a string given by its characters
RECURSIVE str_lstrip(_)
str_lstrip(cs) ==
    IF cs # << >> /\ Head(cs) \in Whitespace THEN str_lstrip(Tail(cs)) ELSE cs

RECURSIVE str_strip(_)
str_strip(cs) ==
    LET l == str_lstrip(cs)
    IN  IF l # << >> /\ l[Len(l)] \in Whitespace
        THEN str_strip(SubSeq(l, 1, Len(l) - 1))
        ELSE l

\* A card of the list, as the locators of _parse_job_card see it:
\*   data_job_id   the data-job-id attribute (None when missing)
\*   link_view_id  the digit run that /view/(\d+) finds in the href of the
\*                 title link (None: no such link or no match; RaiseVal: the
\*                 link has no href, on which re.search raises)
\*   title, company, location, footer
\*                 the text of the first matching element, by its characters
\*                 (NoElem: no element; ElemRaises: reading it raises)
\*   easy_apply    whether the apply-method element is there (RaiseVal:
\*                 counting it raises)
CardOf(attr, view, title, company, location, footer, easy) ==
    [data_job_id |-> attr, link_view_id |-> view, title |-> title,
     company |-> company, location |-> location, footer |-> footer,
     easy_apply |-> easy]

\* the texts a card shows
TitleText == <<" ", "Dev", " ">>
CompanyText == <<"Acme", "\n">>
LocationText == <<"Oslo">>
FooterTexts == {<< >>, <<"Promoted">>, <<"Actively recruiting">>,
                <<" ", "Promoted", " ", "Actively recruiting">>, <<"Viewed">>}

\* An ordinary card: every field is there and readable, the footer shows
\* one badge.
Card(attr, view) ==
    CardOf(attr, view, TitleText, CompanyText, LocationText, <<"Promoted">>, "True")

\* the cards a page of the walk can hold: one ordinary card per identifier,
\* the first of them with an empty attribute and the identifier in its link,
\* and one card without any identifier
CardKinds ==
    {IF id = "101" THEN Card("", id) ELSE Card(id, NoneVal) : id \in JobIds}
    \cup {Card(NoneVal, NoneVal)}

\* the card sequences of a page
PageContents == UNION {[1..n -> CardKinds] : n \in 0..MaxCards}

\* every card the locators can describe
AllCards ==
    {CardOf(attr, view, title, company, location, footer, easy) :
        attr \in JobIds \cup {NoneVal, ""},
        view \in JobIds \cup {NoneVal, RaiseVal},
        title \in {TitleText, NoElem, ElemRaises},
        company \in {CompanyText, NoElem, ElemRaises},
        location \in {LocationText, NoElem, ElemRaises},
        footer \in FooterTexts \cup {NoElem, ElemRaises},
        easy \in {"True", "False", RaiseVal}}

\* `x in text` on a footer text: the badge is one of its parts
str_contains(text, needle) == needle \in Range(text)

\* Python's `a and b` where a is None or a string and b a bool: a when a is
\* falsy, else b ("True" / "False")
py_and(a, b) ==
    IF a = NoElem THEN NoneVal
    ELSE IF a = << >> THEN ""
    ELSE IF b THEN "True" ELSE "False"

\* pydantic's validation of a `bool` field (models/job.py, lines 40-42):
\* True and False pass, None and "" are rejected with a ValidationError
bool_field_valid(v) == v \in {"True", "False"}

\* RecommendedJob(...): the fields the walk reads or writes; the three
\* flags are validated booleans
RecommendedJob(job_id, coll, title, company, location, actively_hiring, promoted, easy_apply) ==
    [job_id |-> job_id,
     job_url |-> "https://www.linkedin.com/jobs/view/" \o job_id \o "/",
     collection |-> coll,
     title |-> title, company |-> company, location |-> location,
     actively_hiring |-> (actively_hiring = "True"),
     promoted |-> (promoted = "True"),
     easy_apply |-> (easy_apply = "True"),
     description |-> NoneVal, hiring_team |-> NoneVal,
     match_analysis |-> NoneVal]

\* _parse_job_card, lines 559-567: the identifier of the card (None or ""
\* when there is none; RaiseVal when resolving it raises)
card_job_id(card) ==
    LET attr == card.data_job_id
    IN  IF attr # NoneVal /\ attr # "" THEN attr
        ELSE IF card.link_view_id # NoneVal THEN card.link_view_id
        ELSE attr

\* (await elem.inner_text()).strip() if await elem.count() > 0 else default
field_text(elem, default) ==
    IF elem = NoElem THEN default
    ELSE IF elem = ElemRaises THEN RaiseVal
    ELSE PyStr(str_strip(elem))

\* A parser that emits a record for every card, with a placeholder when the
\* card has no identifier.
parse_job_card_placeholder(card, coll) ==
    LET job_id == card_job_id(card)
    IN  Some(RecommendedJob(IF job_id \in {NoneVal, "", RaiseVal} THEN "" ELSE job_id,
                            coll, "Unknown Title", "Unknown Company", NoneVal,
                            "False", "False", "False"))

\* _parse_job_card: the record of a card, or None
parse_job_card(card, coll) ==
    LET job_id == card_job_id(card)
        title == field_text(card.title, "Unknown Title")
        company == field_text(card.company, "Unknown Company")
        location == field_text(card.location, NoneVal)
        footer_text == IF card.footer \in {NoElem, ElemRaises} THEN card.footer
                       ELSE str_strip(card.footer)
        actively_hiring == py_and(footer_text,
                                  str_contains(footer_text, "Actively recruiting"))
        promoted == py_and(footer_text, str_contains(footer_text, "Promoted"))
        easy_apply == card.easy_apply
    IN  IF job_id = RaiseVal THEN Nothing                   \* line 603
        ELSE IF job_id = NoneVal \/ job_id = "" THEN Nothing     \* line 570
        ELSE IF \/ RaiseVal \in {title, company, location, easy_apply}
                \/ footer_text = ElemRaises
        THEN Nothing                                             \* line 603
        ELSE IF ~ (bool_field_valid(actively_hiring) /\ bool_field_valid(promoted))
        THEN Nothing                   \* ValidationError, caught at line 603
        ELSE Some(RecommendedJob(job_id, coll, title, company, location,
                                 actively_hiring, promoted, easy_apply))

\* the job ids of a sequence of records
JobIdsOf(jobs) == [i \in 1..Len(jobs) |-> jobs[i].job_id]

\* A card loop that gives up on the page at the first card without a
\* record.
RECURSIVE extract_loop_abort(_, _, _, _, _, _)
extract_loop_abort(cards, k, jobs, limit, seen, coll) ==
    IF k > Len(cards) \/ Len(jobs) >= limit THEN jobs
    ELSE LET job == parse_job_card(cards[k], coll)
         IN  IF job = Nothing THEN jobs
             ELSE IF job[1].job_id \notin seen
             THEN extract_loop_abort(cards, k + 1, Append(jobs, job[1]), limit, seen, coll)
             ELSE extract_loop_abort(cards, k + 1, jobs, limit, seen, coll)

\* _extract_jobs_from_page, the loop over the located cards (lines 525-533),
\* from card k on with the records collected so far
RECURSIVE extract_loop(_, _, _, _, _, _)
extract_loop(cards, k, jobs, limit, seen, coll) ==
    IF k > Len(cards) \/ Len(jobs) >= limit THEN jobs
    ELSE LET job == parse_job_card(cards[k], coll)
         IN  IF job # Nothing /\ job[1].job_id \notin seen
             THEN extract_loop(cards, k + 1, Append(jobs, job[1]), limit, seen, coll)
             ELSE extract_loop(cards, k + 1, jobs, limit, seen, coll)

\* _extract_jobs_from_page
extract_jobs_from_page(cards, limit, seen, coll) ==
    IF cards = << >> THEN << >>
    ELSE extract_loop(cards, 1, << >>, limit, seen, coll)

\* A merge that trusts the pass to have removed the duplicates: it neither
\* tests nor updates the seen set.
RECURSIVE merge_new_jobs_unchecked(_, _, _, _, _)
merge_new_jobs_unchecked(new_jobs, k, jobs, seen, limit) ==
    IF k > Len(new_jobs) THEN [jobs |-> jobs, seen |-> seen]
    ELSE IF Len(jobs) < limit
         THEN merge_new_jobs_unchecked(new_jobs, k + 1, Append(jobs, new_jobs[k]),
                                       seen, limit)
         ELSE merge_new_jobs_unchecked(new_jobs, k + 1, jobs, seen, limit)

\* A merge that puts each new record in front of the records of the page.
RECURSIVE merge_new_jobs_front(_, _, _, _, _)
merge_new_jobs_front(new_jobs, k, jobs, seen, limit) ==
    IF k > Len(new_jobs) THEN [jobs |-> jobs, seen |-> seen]
    ELSE LET job == new_jobs[k]
         IN  IF job.job_id \notin seen /\ Len(jobs) < limit
             THEN merge_new_jobs_front(new_jobs, k + 1, <<job>> \o jobs,
                                       seen \cup {job.job_id}, limit)
             ELSE merge_new_jobs_front(new_jobs, k + 1, jobs, seen, limit)

\* _scroll_and_extract_all_jobs, the merge of one pass (lines 194-197):
\* the records of the page and the seen set after new_jobs[k..]
RECURSIVE merge_new_jobs(_, _, _, _, _)
merge_new_jobs(new_jobs, k, jobs, seen, limit) ==
    IF k > Len(new_jobs) THEN [jobs |-> jobs, seen |-> seen]
    ELSE LET job == new_jobs[k]
         IN  IF job.job_id \notin seen /\ Len(jobs) < limit
             THEN merge_new_jobs(new_jobs, k + 1, Append(jobs, job),
                                 seen \cup {job.job_id}, limit)
             ELSE merge_new_jobs(new_jobs, k + 1, jobs, seen, limit)

(***************************************************************************)
(* The detail expander.                                                    *)
(***************************************************************************)
\* How the page answers one expansion: how the card of the record is found
\* ("by_id", "by_link", "missing", or "raises" when locating or clicking it
\* raises), and for each of the three panels whether reading it yields a
\* value, finds nothing, or raises.
PanelOutcomes == {"value", "absent", "raise"}
Panels ==
    {p \in [card : {"by_id", "by_link", "missing", "raises"},
            description : PanelOutcomes,
            hiring_team : PanelOutcomes,
            match_analysis : PanelOutcomes] :
        \* a panel that never opens has nothing to read
        p.card \in {"missing", "raises"} =>
            /\ p.description = "absent"
            /\ p.hiring_team = "absent"
            /\ p.match_analysis = "absent"}
NoPanel == [card |-> "none", description |-> "absent",
            hiring_team |-> "absent", match_analysis |-> "absent"]

\* _extract_job_description: the text, None when nothing matches or when
\* the extraction raises (lines 332-334)
extract_job_description(job_id, outcome) ==
    IF outcome = "value" THEN "description of " \o job_id ELSE NoneVal

\* _extract_hiring_team (lines 400-403)
extract_hiring_team(job_id, outcome) ==
    IF outcome = "value" THEN "hiring team of " \o job_id ELSE NoneVal

\* _extract_match_analysis (lines 429-430, 451-456, 497-500)
extract_match_analysis(job_id, outcome) ==
    IF outcome = "value" THEN "match analysis of " \o job_id ELSE NoneVal

\* An expander without the local handlers of the three extractions: the
\* first one that raises makes the whole expansion return None.
fetch_job_details_unguarded(job_id, panel) ==
    IF panel.card \in {"by_id", "by_link"}
       /\ "raise" \notin {panel.description, panel.hiring_team,
                          panel.match_analysis}
    THEN Some([description |-> extract_job_description(job_id, panel.description),
               hiring_team |-> extract_hiring_team(job_id, panel.hiring_team),
               match_analysis |-> extract_match_analysis(job_id, panel.match_analysis)])
    ELSE Nothing

\* _fetch_job_details: the dict of the three fields, or None when the card
\* is not found or opening it raises
fetch_job_details(job_id, panel) ==
    IF panel.card \in {"by_id", "by_link"}
    THEN Some([description |-> extract_job_description(job_id, panel.description),
               hiring_team |-> extract_hiring_team(job_id, panel.hiring_team),
               match_analysis |-> extract_match_analysis(job_id, panel.match_analysis)])
    ELSE Nothing

\* scrape, lines 141-144: the record after its expansion returned details
apply_details(job, details) ==
    IF details # Nothing
    THEN [job EXCEPT !.description = details[1].description,
                     !.hiring_team = details[1].hiring_team,
                     !.match_analysis = details[1].match_analysis]
    ELSE job

(***************************************************************************)
(* Pagination controls.                                                    *)
(***************************************************************************)
\* the five "next page" locators and the three "load more" locators
NumNextSelectors == 5
NumSeeMoreSelectors == 3

\* What one locator finds: nothing, or a control with the value of its
\* disabled attribute (None: not disabled; "" is the usual rendering of
\* <button disabled>) and the outcome of a click on it.  The click on a
\* control that is not disabled returns or raises.  The click on a disabled
\* button raises, because the button never becomes actionable; the click on
\* a disabled control that is no button returns.
Control(present, disabled, click) ==
    [present |-> present, disabled |-> disabled, click |-> click]
Absent == Control(FALSE, NoneVal, "raise")
ControlKinds == {Absent,
                 Control(TRUE, NoneVal, "ok"),
                 Control(TRUE, NoneVal, "raise"),
                 Control(TRUE, "true", "raise"),
                 Control(TRUE, "", "raise"),
                 Control(TRUE, "true", "ok"),
                 Control(TRUE, "", "ok")}

\* the locators that can find a control that is no button:
\* '.artdeco-pagination__button--next' and 'a:has-text("See more jobs")'
NonButtonSelectors == {3, NumNextSelectors + NumSeeMoreSelectors}

\* what locator n can find
KindsAt(n) ==
    {c \in ControlKinds :
        (c.disabled # NoneVal /\ c.click = "ok") => n \in NonButtonSelectors}

\* the states of the eight locators of one pagination attempt: at most two
\* of them find a control
ControlConfigs ==
    UNION {{[n \in 1..(NumNextSelectors + NumSeeMoreSelectors) |->
                IF n = i THEN a ELSE IF n = j THEN b ELSE Absent] :
                a \in KindsAt(i), b \in KindsAt(j)} :
           i \in 1..(NumNextSelectors + NumSeeMoreSelectors),
           j \in 1..(NumNextSelectors + NumSeeMoreSelectors)}

\* _go_to_next_page from locator k on: the index of the control whose click
\* returned, 0 when no click did (the function then returns False)
RECURSIVE go_to_next_page_from(_, _)
go_to_next_page_from(controls, k) ==
    IF k > NumNextSelectors + NumSeeMoreSelectors THEN 0
    ELSE LET c == controls[k]
             tried == IF k <= NumNextSelectors
                      THEN c.present /\ (c.disabled = NoneVal \/ c.disabled = "")
                      ELSE c.present
         IN  IF tried /\ c.click = "ok" THEN k
             ELSE go_to_next_page_from(controls, k + 1)

\* _go_to_next_page
go_to_next_page(controls) == go_to_next_page_from(controls, 1)

(***************************************************************************)
(* The parse of a match-analysis text (_extract_match_analysis, lines      *)
(* 454-497).  A text is the sequence of its characters.                    *)
(***************************************************************************)
\* the character U+2713, the bullet of a matched qualification
CheckMark == "<U+2713>"
\* the bullet of a missing qualification
QuestionMark == "?"
\* the line feed that separates the lines of inner_text()
LineFeed == "\n"
\* the separator the code splits on: '\\n' in the source, which is the two
\* characters backslash and n
SplitSeparator == <<"\\", "n">>

\* str.startswith
str_startswith(cs, lit) ==
    Len(cs) >= Len(lit) /\ SubSeq(cs, 1, Len(lit)) = lit

\* `lit in cs`
str_in(lit, cs) ==
    \E i \in 1..(Len(cs) - Len(lit) + 1) : SubSeq(cs, i, i + Len(lit) - 1) = lit

\* str.split(sep): the pieces of cs between the occurrences of sep, with the
\* piece begun so far in acc
RECURSIVE str_split_from(_, _, _)
str_split_from(cs, sep, acc) ==
    IF cs = << >> THEN <<acc>>
    ELSE IF str_startswith(cs, sep)
    THEN <<acc>> \o str_split_from(SubSeq(cs, Len(sep) + 1, Len(cs)), sep, << >>)
    ELSE str_split_from(Tail(cs), sep, Append(acc, Head(cs)))

str_split(cs, sep) == str_split_from(cs, sep, << >>)

\* the characters \s and \d match
ReSpace == {" ", "\t", "\n", "\r"}
ReDigit == {Digits[i] : i \in 1..10}

\* the first position from i on whose character is not in the class
RECURSIVE re_skip(_, _, _)
re_skip(cs, i, class) ==
    IF i <= Len(cs) /\ cs[i] \in class THEN re_skip(cs, i + 1, class) ELSE i

\* whether the literal stands at position i
re_lit(cs, i, lit) ==
    i + Len(lit) - 1 <= Len(cs) /\ SubSeq(cs, i, i + Len(lit) - 1) = lit

\* int() of a run of digits
RECURSIVE py_int(_)
py_int(ds) ==
    IF ds = << >> THEN 0
    ELSE 10 * py_int(SubSeq(ds, 1, Len(ds) - 1))
         + ((CHOOSE i \in 1..10 : Digits[i] = ds[Len(ds)]) - 1)

\* the match of matches?\s+(\d+)\s+of\s+(?:the\s+)?(\d+)\s+required
\* that starts at position i: its two groups, or Nothing
re_match_count_at(cs, i) ==
    LET a == i + 6                                  \* after "matche"
        b == IF a <= Len(cs) /\ cs[a] = "s" THEN a + 1 ELSE a
        c == re_skip(cs, b, ReSpace)                \* \s+
        d == re_skip(cs, c, ReDigit)                \* (\d+)
        e == re_skip(cs, d, ReSpace)                \* \s+
        f == e + 2                                  \* after "of"
        g == re_skip(cs, f, ReSpace)                \* \s+
        h == IF re_lit(cs, g, <<"t", "h", "e">>)
                /\ re_skip(cs, g + 3, ReSpace) > g + 3
             THEN re_skip(cs, g + 3, ReSpace) ELSE g  \* (?:the\s+)?
        k == re_skip(cs, h, ReDigit)                \* (\d+)
        l == re_skip(cs, k, ReSpace)                \* \s+
    IN  IF /\ re_lit(cs, i, <<"m", "a", "t", "c", "h", "e">>)
           /\ c > b /\ d > c /\ e > d
           /\ re_lit(cs, e, <<"o", "f">>)
           /\ g > f /\ k > h /\ l > k
           /\ re_lit(cs, l, <<"r", "e", "q", "u", "i", "r", "e", "d">>)
        THEN Some([total_matched |-> py_int(SubSeq(cs, c, d - 1)),
                   total_required |-> py_int(SubSeq(cs, h, k - 1))])
        ELSE Nothing

\* re.search: the leftmost match from position i on
RECURSIVE re_search_match_count(_, _)
re_search_match_count(cs, i) ==
    IF i > Len(cs) THEN Nothing
    ELSE IF re_match_count_at(cs, i) # Nothing THEN re_match_count_at(cs, i)
    ELSE re_search_match_count(cs, i + 1)

\* '/view/'
ViewPath == <<"/", "v", "i", "e", "w", "/">>

\* A search that keeps the first digit only.
RECURSIVE re_search_view_id_first(_, _)
re_search_view_id_first(href, i) ==
    IF i > Len(href) THEN NoneVal
    ELSE IF re_lit(href, i, ViewPath)
            /\ re_skip(href, i + Len(ViewPath), ReDigit) > i + Len(ViewPath)
    THEN PyStr(SubSeq(href, i + Len(ViewPath), i + Len(ViewPath)))
    ELSE re_search_view_id_first(href, i + 1)

\* re.search(r'/view/(\d+)', href) from position i on (line 565): group 1
\* of the leftmost match, None when there is no match
RECURSIVE re_search_view_id(_, _)
re_search_view_id(href, i) ==
    IF i > Len(href) THEN NoneVal
    ELSE IF re_lit(href, i, ViewPath)
            /\ re_skip(href, i + Len(ViewPath), ReDigit) > i + Len(ViewPath)
    THEN PyStr(SubSeq(href, i + Len(ViewPath),
                      re_skip(href, i + Len(ViewPath), ReDigit) - 1))
    ELSE re_search_view_id(href, i + 1)

\* lines 561-567 on the href of the title link (NoElem: the card has no
\* such link; ElemRaises: the link has no href, on which re.search raises):
\* what the link gives for the identifier
link_view_id(href) ==
    IF href = NoElem THEN NoneVal                                \* line 562
    ELSE IF href = ElemRaises THEN RaiseVal                      \* line 565
    ELSE re_search_view_id(href, 1)

\* lines 483-495: the entries of the lines that start with the bullet, the
\* bullet removed and the rest trimmed, empty entries left out
RECURSIVE qualifications(_, _)
qualifications(lines, bullet) ==
    IF lines = << >> THEN << >>
    ELSE LET line == str_strip(Head(lines))
             qual == str_strip(Tail(line))
         IN  IF line # << >> /\ Head(line) = bullet /\ qual # << >>
             THEN <<qual>> \o qualifications(Tail(lines), bullet)
             ELSE qualifications(Tail(lines), bullet)

\* the phrases that make a line the summary
SummaryPhrases == {<<"t", "o", "p", " ", "a", "p", "p", "l", "i", "c", "a", "n", "t">>,
                   <<"s", "t", "r", "o", "n", "g", " ", "m", "a", "t", "c", "h">>,
                   <<"g", "o", "o", "d", " ", "m", "a", "t", "c", "h">>}
QualificationWord == <<"q", "u", "a", "l", "i", "f", "i", "c", "a", "t", "i", "o", "n">>

\* lines 469-476: the summary, None when no line qualifies
RECURSIVE summary_of(_, _)
summary_of(lines, summary) ==
    IF lines = << >> THEN summary
    ELSE LET line == str_strip(Head(lines))
             low == str_lower(line)
         IN  IF \E ph \in SummaryPhrases : str_in(ph, low) THEN line
             ELSE IF /\ line # << >>
                     /\ Head(line) # CheckMark
                     /\ Head(line) # QuestionMark
                     /\ ~ str_in(QualificationWord, low)
                     /\ summary = NoElem
                  THEN summary_of(Tail(lines), line)
                  ELSE summary_of(Tail(lines), summary)

\* lines 455-497: the result built from the text of the response, None
\* when the text is empty; a total that stays None is given as -1
parse_match_analysis(analysis_text) ==
    IF analysis_text = << >> THEN Nothing
    ELSE LET lines == str_split(analysis_text, SplitSeparator)
             match_count == re_search_match_count(str_lower(analysis_text), 1)
         IN  Some([raw_text |-> str_strip(analysis_text),
                   summary |-> summary_of(lines, NoElem),
                   matched_qualifications |-> qualifications(lines, CheckMark),
                   missing_qualifications |-> qualifications(lines, QuestionMark),
                   total_matched |-> IF match_count = Nothing THEN -1
                                     ELSE match_count[1].total_matched,
                   total_required |-> IF match_count = Nothing THEN -1
                                      ELSE match_count[1].total_required])

(***************************************************************************)
(* Page readiness and page population.                                     *)
(***************************************************************************)
\* the container selectors of _wait_for_jobs_list (lines 540-546)
NumContainerSelectors == 5

\* timeout // len(selectors): the share of one selector
selector_timeout(timeout) == timeout \div NumContainerSelectors

\* which container selectors show up within their share: none, the first,
\* two later ones
AppearSets == {{}, {1}, {2, 4}}

NoWait == [appears |-> {}, tried |-> 0, found |-> 0, raised |-> FALSE]

\* A readiness wait that lets the timeout of the last selector escape.
RECURSIVE wait_for_jobs_list_strict(_, _)
wait_for_jobs_list_strict(appears, k) ==
    IF k > NumContainerSelectors
    THEN [appears |-> appears, tried |-> NumContainerSelectors, found |-> 0,
          raised |-> TRUE]
    ELSE IF k \in appears
    THEN [appears |-> appears, tried |-> k, found |-> k, raised |-> FALSE]
    ELSE wait_for_jobs_list_strict(appears, k + 1)

\* _wait_for_jobs_list from selector k on: how many selectors were waited
\* for, which one showed up (0: none), and whether the wait raised
RECURSIVE wait_for_jobs_list(_, _)
wait_for_jobs_list(appears, k) ==
    IF k > NumContainerSelectors
    THEN [appears |-> appears, tried |-> NumContainerSelectors, found |-> 0,
          raised |-> FALSE]                                 \* line 553
    ELSE IF k \in appears
    THEN [appears |-> appears, tried |-> k, found |-> k, raised |-> FALSE]
    ELSE wait_for_jobs_list(appears, k + 1)                 \* lines 551-552

\* for _ in range(5) in _fallback_scroll
NumFallbackPresses == 5

\* the press of the fallback scroll that raises: none, the second, the last
FailAts == {0, 2, NumFallbackPresses}

\* A fallback scroll without its handler.
fallback_scroll_unguarded(fail_at) ==
    [presses |-> IF fail_at = 0 THEN NumFallbackPresses ELSE fail_at,
     raised |-> fail_at # 0]

\* _fallback_scroll when the press number fail_at raises (0: none does):
\* the number of presses made, and whether the scroll raised
fallback_scroll(fail_at) ==
    [presses |-> IF fail_at = 0 THEN NumFallbackPresses ELSE fail_at,
     raised |-> FALSE]

NoScroll == [structured |-> "none", fail_at |-> 0, presses |-> 0,
             raised |-> FALSE, scroll_top |-> 0]

\* The scroll position of the list container, counted in list items above
\* the one in view: after items[i].scrollIntoView for each of the items
\* (lines 219-222) the last item is in view.
scroll_into_view(items) == IF items = 0 THEN 0 ELSE items - 1

\* A structured pass whose last statement writes container.scrollTop.
load_all_jobs_on_page_reset(structured_ok, fail_at, items) ==
    IF structured_ok
    THEN [structured |-> "ok", fail_at |-> 0, presses |-> 0, raised |-> FALSE,
          scroll_top |-> 0]
    ELSE [structured |-> "raise", fail_at |-> fail_at,
          presses |-> fallback_scroll(fail_at).presses,
          raised |-> fallback_scroll(fail_at).raised,
          scroll_top |-> scroll_into_view(items)]

\* _load_all_jobs_on_page on a list of so many items: the structured pass,
\* and the fallback scroll when it raises.  The last statement of the
\* script (line 224) assigns 0 to a global named dictionary_scrollTop, not
\* to the scrollTop of the container, so the position is left where the
\* last scrollIntoView put it; the End presses of the fallback scroll go
\* to the end of the list.
load_all_jobs_on_page(structured_ok, fail_at, items) ==
    IF structured_ok
    THEN [structured |-> "ok", fail_at |-> 0, presses |-> 0, raised |-> FALSE,
          scroll_top |-> scroll_into_view(items)]
    ELSE [structured |-> "raise", fail_at |-> fail_at,
          presses |-> fallback_scroll(fail_at).presses,
          raised |-> fallback_scroll(fail_at).raised,
          scroll_top |-> scroll_into_view(items)]

(***************************************************************************)
(* State.                                                                  *)
(***************************************************************************)
VARIABLES
    job_store,          \* scraper_service.job_store: task id -> ScrapeStatus
    args,               \* the arguments of run_scrape_task
    pc,                 \* where the background task stands
    raised,             \* the exception run_scrape_task caught (NoExc: none)
    result,             \* run_scrape_task.jobs: what scrape returned
    collection,         \* JobCollectionScraper.collection (its value)
    all_jobs,           \* scrape.all_jobs
    seen_job_ids,       \* scrape.seen_job_ids
    current_page,       \* scrape.current_page
    has_next,           \* scrape.has_next: "unset", "true" or "false"
    jobs_on_page,       \* _scroll_and_extract_all_jobs.jobs / scrape.jobs_on_page
    last_job_count,     \* _scroll_and_extract_all_jobs.last_job_count
    no_new_jobs_count,  \* _scroll_and_extract_all_jobs.no_new_jobs_count
    detail_idx,         \* how many records of the page have been expanded
    details,            \* scrape.details: what the last expansion returned
    panel,              \* the page: how it answered the last expansion
    page_cards,         \* the page: the cards of the list of the current page
    rendered,           \* the page: how many of them are materialized
    clicked,            \* the page: the pagination control last clicked (0: none)
    trace,              \* history: navigation, clicks and notifier hooks
    shown,              \* history: per id, the pages on which a pass saw its card
    expanded,           \* history: the expander calls, and whether the panel opened
    extracted_on,       \* history: the page each record of all_jobs came from
    waited,             \* how the last _wait_for_jobs_list went
    scrolled,           \* how the last _load_all_jobs_on_page went
    analysis_text,      \* _extract_match_analysis.analysis_text, by its characters
    analysis,           \* _extract_match_analysis.result
    document,           \* the page: the elements one operation on its own reads
    db,                 \* database.db: its client, and how the last upsert_jobs went
    tasks,              \* the event loop: the background tasks of several jobs
    now                 \* datetime.now(), in ticks

service == <<job_store, args, raised, result>>
walker == <<collection, all_jobs, seen_job_ids, current_page, has_next>>
pageloop == <<jobs_on_page, last_job_count, no_new_jobs_count>>
expander == <<detail_idx, details, panel>>
browser == <<page_cards, rendered, clicked>>
history == <<trace, shown, expanded, extracted_on>>
probes == <<waited, scrolled>>
matcher == <<analysis_text, analysis>>
backend == <<db, tasks, now>>
vars == <<service, pc, walker, pageloop, expander, browser, history, probes,
          matcher, document, backend>>

\* no element of the page is under study
NoDocument == << >>

\* Database.__init__: the client is made from the environment, or stays
\* None; no upsert_jobs call was made yet
NoDb == [client |-> "unread", upsert |-> "not called"]

\* no job but the one of args is on the event loop
NoTasks == << >>

\* _scroll_and_extract_all_jobs.max_no_new_jobs
max_no_new_jobs == 5

NoArgs == [task_id |-> "", collection |-> << >>, limit |-> 0, pages |-> 0,
           details |-> FALSE]

\* one observable call: a notifier hook, a navigation, a pagination click
Event(call, arg) == [call |-> call, arg |-> arg]

\* the number of events of one kind in the history
RECURSIVE CountCalls(_, _)
CountCalls(tr, call) ==
    IF tr = << >> THEN 0
    ELSE (IF Head(tr).call = call THEN 1 ELSE 0) + CountCalls(Tail(tr), call)

(***************************************************************************)
(* The detail panel, element by element.                                   *)
(***************************************************************************)
\* how many leading description selectors may find an element, and how
\* many candidate cards a hiring-team panel holds
MaxCandidates == 3
MaxHirers == 2

\* description_selectors (lines 312-318)
NumDescriptionSelectors == 5

\* 'About the job'
AboutTheJob == <<"A", "b", "o", "u", "t", " ", "t", "h", "e", " ", "j", "o", "b">>

\* _extract_job_description, the loop over the selectors (lines 319-331)
\* from selector k on; elems[k] is what selector k finds (NoElem, ElemRaises
\* or the characters of the inner text of its first element)
RECURSIVE extract_job_description_loop(_, _)
extract_job_description_loop(elems, k) ==
    IF k > Len(elems) THEN NoneVal                               \* line 331
    ELSE LET desc_elem == elems[k]
         IN  IF desc_elem = NoElem                               \* line 322
             THEN extract_job_description_loop(elems, k + 1)
             ELSE IF desc_elem = ElemRaises                  \* lines 329-330
             THEN extract_job_description_loop(elems, k + 1)
             ELSE IF desc_elem = << >>                   \* line 324: '' is falsy
             THEN extract_job_description_loop(elems, k + 1)
             ELSE LET description == str_strip(desc_elem)        \* line 325
                  IN  IF str_startswith(description, AboutTheJob)
                      THEN PyStr(str_strip(SubSeq(description, Len(AboutTheJob) + 1,
                                                  Len(description))))
                      ELSE PyStr(description)                    \* line 328

\* One candidate card of the hiring-team panel:
\*   name_elem   the text of its name element (NoElem, ElemRaises)
\*   name_link   the text of its profile link (NoElem, ElemRaises)
\*   rest        "ok", or "raise" when reading one of its other elements
\*               raises (lines 367-395)
HirerCard(name_elem, name_link, rest) ==
    [name_elem |-> name_elem, name_link |-> name_link, rest |-> rest]

\* lines 353-362: member.get('name') by its characters (NoElem: the key is
\* not set; ElemRaises: reading it raises)
hirer_name(card) ==
    IF card.name_elem = ElemRaises THEN ElemRaises
    ELSE IF card.name_elem # NoElem THEN str_strip(card.name_elem)  \* line 356
    ELSE IF card.name_link = ElemRaises THEN ElemRaises
    ELSE IF card.name_link = NoElem THEN NoElem                  \* line 359
    ELSE IF card.name_link = << >> THEN NoElem                   \* line 361
    ELSE str_split(str_strip(card.name_link), SplitSeparator)[1] \* line 362

\* A loop over the candidate cards that stops at the first card without a
\* name.
RECURSIVE extract_hiring_team_loop_break(_, _, _)
extract_hiring_team_loop_break(hirer_cards, k, hiring_team) ==
    IF k > Len(hirer_cards) THEN hiring_team
    ELSE LET card == hirer_cards[k]
             name == hirer_name(card)
         IN  IF name = ElemRaises
             THEN extract_hiring_team_loop_break(hirer_cards, k + 1, hiring_team)
             ELSE IF name = NoElem \/ name = << >>
             THEN hiring_team
             ELSE IF card.rest = "raise"
             THEN extract_hiring_team_loop_break(hirer_cards, k + 1, hiring_team)
             ELSE extract_hiring_team_loop_break(hirer_cards, k + 1,
                      Append(hiring_team, [name |-> PyStr(name)]))

\* _extract_hiring_team, the loop over the candidate cards (lines 351-399)
\* from card k on, with the members collected so far
RECURSIVE extract_hiring_team_loop(_, _, _)
extract_hiring_team_loop(hirer_cards, k, hiring_team) ==
    IF k > Len(hirer_cards) THEN hiring_team
    ELSE LET card == hirer_cards[k]
             name == hirer_name(card)
         IN  IF name = ElemRaises                            \* lines 398-399
             THEN extract_hiring_team_loop(hirer_cards, k + 1, hiring_team)
             ELSE IF name = NoElem \/ name = << >>           \* lines 364-365
             THEN extract_hiring_team_loop(hirer_cards, k + 1, hiring_team)
             ELSE IF card.rest = "raise"                     \* lines 398-399
             THEN extract_hiring_team_loop(hirer_cards, k + 1, hiring_team)
             ELSE extract_hiring_team_loop(hirer_cards, k + 1,   \* line 397
                      Append(hiring_team, [name |-> PyStr(name)]))

\* _extract_hiring_team on the candidate cards the page holds: the members,
\* or None when there is none (line 400)
extract_hiring_team_cards(hirer_cards) ==
    LET hiring_team == extract_hiring_team_loop(hirer_cards, 1, << >>)
    IN  IF hiring_team = << >> THEN Nothing ELSE Some(hiring_team)

\* for _ in range(6) in _extract_match_analysis
NumPollRounds == 6

\* match_btn_selectors (lines 407-413)
NumMatchBtnSelectors == 5

\* The "Show match details" button of the page: the selector that finds it,
\* the polling round from which it is visible (0: never), and whether the
\* click on it returns ("ok") or raises.
ShowButton(selector, visible_from, click) ==
    [selector |-> selector, visible_from |-> visible_from, click |-> click]

\* A polling loop with one round more.
RECURSIVE poll_show_button_late(_, _)
poll_show_button_late(btn, round) ==
    IF round > NumPollRounds + 1 THEN [rounds |-> NumPollRounds + 1, found |-> FALSE]
    ELSE IF btn.visible_from # 0 /\ btn.visible_from <= round
    THEN [rounds |-> round, found |-> TRUE]
    ELSE poll_show_button_late(btn, round + 1)

\* lines 415-427, from one round on: the rounds polled, and whether a
\* selector found the button visible
RECURSIVE poll_show_button(_, _)
poll_show_button(btn, round) ==
    IF round > NumPollRounds THEN [rounds |-> NumPollRounds, found |-> FALSE]
    ELSE IF btn.visible_from # 0 /\ btn.visible_from <= round    \* line 420
    THEN [rounds |-> round, found |-> TRUE]
    ELSE poll_show_button(btn, round + 1)                        \* line 427

\* _extract_match_analysis on a page with this button and this response
\* element (NoElem, ElemRaises or the characters of its inner text): the
\* result, the rounds polled and the clicks made
extract_match_analysis_poll(btn, analysis_elem) ==
    LET polled == poll_show_button(btn, 1)
    IN  IF ~ polled.found                                    \* lines 429-430
        THEN [result |-> Nothing, rounds |-> polled.rounds, clicks |-> 0]
        ELSE [result |-> IF btn.click = "raise" THEN Nothing \* lines 498-500
                         ELSE IF analysis_elem = NoElem THEN Nothing \* 451-452
                         ELSE IF analysis_elem = ElemRaises THEN Nothing
                         ELSE IF analysis_elem = << >> THEN Nothing \* 455-456
                         ELSE parse_match_analysis(analysis_elem),
              rounds |-> polled.rounds,
              clicks |-> 1]                                      \* line 432

\* The detail view of one record: how its card is found (as in Panels), and
\* what the selectors of the three extractions find.
DetailView(card, description, hirer_cards, show_button, analysis_elem) ==
    [card |-> card, description |-> description, hirer_cards |-> hirer_cards,
     show_button |-> show_button, analysis_elem |-> analysis_elem]

\* the events n polling rounds leave
PollEvents(n) == [r \in 1..n |-> Event("poll", ToStr(r))]

\* An expander that runs the three extractions whether or not it found the
\* card.
fetch_job_details_view_eager(job_id, view) ==
    LET match == extract_match_analysis_poll(view.show_button, view.analysis_elem)
    IN  [details |-> IF view.card \in {"by_id", "by_link"}
                     THEN Some([description |->
                                    extract_job_description_loop(view.description, 1),
                                hiring_team |->
                                    extract_hiring_team_cards(view.hirer_cards),
                                match_analysis |-> match.result])
                     ELSE Nothing,
         calls |-> <<Event("description", job_id), Event("hiring_team", job_id),
                     Event("match_analysis", job_id)>>
                   \o PollEvents(match.rounds)
                   \o [i \in 1..match.clicks |-> Event("show", job_id)]]

\* _fetch_job_details on a detail view: what it returns, and the calls it
\* makes on the way (the click that opens the card, the three extractions,
\* the polling rounds, the click on the button)
fetch_job_details_view(job_id, view) ==
    IF view.card \in {"by_id", "by_link"}                        \* line 292
    THEN LET match == extract_match_analysis_poll(view.show_button,
                                                  view.analysis_elem)
         IN  [details |-> Some([description |->
                                    extract_job_description_loop(view.description, 1),
                                hiring_team |->
                                    extract_hiring_team_cards(view.hirer_cards),
                                match_analysis |-> match.result]),
              calls |-> <<Event("open", job_id), Event("description", job_id),
                          Event("hiring_team", job_id),
                          Event("match_analysis", job_id)>>
                        \o PollEvents(match.rounds)
                        \o [i \in 1..match.clicks |-> Event("show", job_id)]]
    ELSE [details |-> Nothing, calls |-> << >>]              \* lines 305-308

Init ==
    /\ db = NoDb
    /\ tasks = NoTasks
    /\ now = 0
    /\ job_store = << >>
    /\ args = NoArgs
    /\ pc = "not_created"
    /\ raised = NoExc
    /\ result = << >>
    /\ collection = NoneVal
    /\ all_jobs = << >>
    /\ seen_job_ids = {}
    /\ current_page = 0
    /\ has_next = "unset"
    /\ jobs_on_page = << >>
    /\ last_job_count = 0
    /\ no_new_jobs_count = 0
    /\ detail_idx = 0
    /\ details = Nothing
    /\ panel = NoPanel
    /\ page_cards = << >>
    /\ rendered = 0
    /\ clicked = 0
    /\ trace = << >>
    /\ shown = [id \in JobIds |-> {}]
    /\ expanded = << >>
    /\ extracted_on = << >>
    /\ waited = NoWait
    /\ scrolled = NoScroll
    /\ analysis_text = << >>
    /\ analysis = Nothing
    /\ document = NoDocument

(***************************************************************************)
(* scraper_service.py                                                      *)
(***************************************************************************)
\* create_scrape_job: the pending record, and the background task scheduled
CreateScrapeJob ==
    /\ pc = "not_created"
    /\ \E task_id \in TaskIds \ DOMAIN job_store,
          coll \in CollectionInputs,
          limit \in 1..MaxLimit,
          pages \in 1..MaxPages,
          dets \in BOOLEAN :
            /\ dets => limit <= MaxDetailLimit
            /\ job_store' = (task_id :> ScrapeStatus(task_id, "pending", PyStr(coll)))
                            @@ job_store
            /\ args' = [task_id |-> task_id, collection |-> coll,
                        limit |-> limit, pages |-> pages, details |-> dets]
    /\ pc' = "scheduled"
    /\ UNCHANGED <<raised, result, walker, pageloop, expander, browser, history>>
    /\ UNCHANGED <<probes, matcher, document, backend>>

\* run_scrape_task, lines 55-66: the record is replaced by a starting one
StartTask ==
    /\ pc = "scheduled"
    /\ job_store' = (args.task_id :>
                        ScrapeStatus(args.task_id, "starting", PyStr(args.collection)))
                    @@ job_store
    /\ pc' = "browser"
    /\ UNCHANGED <<args, raised, result, walker, pageloop, expander, browser, history>>
    /\ UNCHANGED <<probes, matcher, document, backend>>

\* run_scrape_task, lines 100-105: an exception leaves the with block and
\* is caught; the task is over
Fail(e) ==
    /\ job_store' = run_scrape_task_except(job_store, args.task_id, e)
    /\ raised' = e
    /\ pc' = "done"

\* async with BrowserManager(...): the browser starts, or starting it raises
EnterBrowser ==
    /\ pc = "browser"
    /\ \/ /\ pc' = "load_session"
          /\ UNCHANGED <<job_store, raised>>
       \/ Fail(Exc("Error", "BrowserType.launch: executable not found"))
    /\ UNCHANGED <<args, result, walker, pageloop, expander, browser, history>>
    /\ UNCHANGED <<probes, matcher, document, backend>>

\* run_scrape_task, lines 69-84, and scrape, lines 110-115: load_session
\* returns or its exception is swallowed; the scraper is constructed; scrape
\* emits on_start and sets up its locals
ConstructAndStart ==
    /\ pc = "load_session"
    /\ LET r == JobCollectionScraper_init(args.collection)
       IN  IF r.ok
           THEN /\ collection' = r.value
                /\ job_store' = ServiceCallback_on_start(job_store, args.task_id,
                                    "JobCollection:" \o r.value)
                /\ trace' = Append(trace, Event("on_start", collection_url(r.value)))
                /\ all_jobs' = << >>
                /\ seen_job_ids' = {}
                /\ current_page' = 1
                /\ pc' = "navigate"
                /\ UNCHANGED raised
           ELSE /\ Fail(r.exc)
                /\ UNCHANGED <<collection, trace, all_jobs, seen_job_ids, current_page>>
    /\ UNCHANGED <<args, result, has_next, pageloop, expander, browser,
                   shown, expanded, extracted_on>>
    /\ UNCHANGED <<probes, matcher, document, backend>>

(***************************************************************************)
(* JobCollectionScraper.scrape                                             *)
(***************************************************************************)
\* A loop test that stops one page early.
loop_head_early(total, page) ==
    IF total < args.limit /\ page < args.pages THEN "wait_list" ELSE "finish"

\* the test of the while loop (line 121): into the body, or past the loop
loop_head(total, page) ==
    IF total < args.limit /\ page <= args.pages THEN "wait_list" ELSE "finish"

\* A percentage that grows with the page without the cap at 90.
page_percent_uncapped(page) == 20 + (page * 15)

\* min(90, 20 + (current_page * 15))
page_percent(page) == Min(90, 20 + (page * 15))

\* A walk that expands the records whether or not details were asked for.
after_extraction_always(jobs) ==
    IF jobs = << >> THEN "finish" ELSE "details"

\* after _scroll_and_extract_all_jobs returned (lines 130-148): leave the
\* loop on an empty page, else expand the records or go on to add them
after_extraction(jobs) ==
    IF jobs = << >> THEN "finish"
    ELSE IF args.details THEN "details" ELSE "extend"

\* A detail loop that gives up on the page at the first expansion that
\* returns nothing.
next_detail_break(i, n, d) ==
    IF i = n \/ d = Nothing THEN "extend" ELSE "details"

\* the for loop of lines 137-146 after the expansion of record i of n
\* returned d: on to the next record, whatever d is
next_detail(i, n, d) ==
    IF i = n THEN "extend" ELSE "details"

\* the ids of the identifiable cards among the given ones
CardIds(cards) ==
    {parse_job_card(c, collection)[1].job_id :
        c \in {d \in Range(cards) : parse_job_card(d, collection) # Nothing}}

\* lines 118-121: navigate_and_wait returns with the first page loaded, or
\* raises
Navigate ==
    /\ pc = "navigate"
    /\ \/ /\ \E cards \in PageContents :
                /\ page_cards' = cards
                /\ rendered' \in 0..Len(cards)
          /\ job_store' = ServiceCallback_on_progress(job_store, args.task_id,
                              "Navigated to " \o collection \o " jobs page", 10)
          /\ trace' = trace \o <<Event("goto", collection_url(collection)),
                                 Event("on_progress", ToStr(10))>>
          /\ pc' = loop_head(Len(all_jobs), current_page)
          /\ UNCHANGED raised
       \/ /\ Fail(Exc("TimeoutError", "Page.goto: Timeout 30000ms exceeded."))
          /\ trace' = Append(trace, Event("goto", collection_url(collection)))
          /\ UNCHANGED <<page_cards, rendered>>
    /\ UNCHANGED <<args, result, walker, pageloop, expander, clicked,
                   shown, expanded, extracted_on>>
    /\ UNCHANGED <<probes, matcher, document, backend>>

\* _wait_for_jobs_list: returns when a container shows up and when none does
WaitForJobsList ==
    /\ pc = "wait_list"
    /\ \E appears \in AppearSets :
          LET w == wait_for_jobs_list(appears, 1)
          IN  /\ waited' = w
              /\ IF w.raised
                 THEN Fail(Exc("TimeoutError",
                               "Page.wait_for_selector: Timeout 3000ms exceeded."))
                 ELSE /\ pc' = "load_page"
                      /\ UNCHANGED <<job_store, raised>>
    /\ UNCHANGED <<args, result, walker, pageloop, expander, browser, history,
                   scrolled, matcher, document, backend>>

\* _scroll_and_extract_all_jobs, lines 184-191: the locals, and
\* _load_all_jobs_on_page, whose scrolling may materialize more cards
LoadAllJobsOnPage ==
    /\ pc = "load_page"
    /\ jobs_on_page' = << >>
    /\ last_job_count' = 0
    /\ no_new_jobs_count' = 0
    /\ \E o \in {<<TRUE, 0>>} \cup {<<FALSE, f>> : f \in FailAts} :
          LET l == load_all_jobs_on_page(o[1], o[2], Len(page_cards))
          IN  /\ scrolled' = l
              /\ IF l.raised
                 THEN /\ Fail(Exc("Error", "Keyboard.press: Target closed"))
                      /\ UNCHANGED rendered
                 ELSE /\ rendered' \in rendered..Len(page_cards)
                      /\ pc' = "pass"
                      /\ UNCHANGED <<job_store, raised>>
    /\ waited' = NoWait
    /\ UNCHANGED <<args, result, walker, expander, page_cards, clicked, history,
                   matcher, document, backend>>

\* A page that is given the whole limit, whatever the pages before it gave.
scroll_limit_whole(limit, total) == limit

\* scrape, line 128: the limit handed to _scroll_and_extract_all_jobs, given
\* the limit of the walk and len(all_jobs)
scroll_limit(limit, total) == limit - total

\* A loop test that goes on until the limit is met.
while_test_limit(n, limit, count) == n < limit

\* A loop test that gives up after the first pass that added nothing.
while_test_once(n, limit, count) == n < limit /\ count < 1

\* _scroll_and_extract_all_jobs, line 191: the test of the while loop on
\* len(jobs), limit and no_new_jobs_count
while_test(n, limit, count) == n < limit /\ count < max_no_new_jobs

\* the page loop is over: the cards of this page are not read again
LeavePage(next_pc) ==
    IF next_pc \in {"pass", "fallback"}
    THEN UNCHANGED <<page_cards, rendered>>
    ELSE page_cards' = << >> /\ rendered' = 0

\* _scroll_and_extract_all_jobs, lines 191-209: one extraction pass
ExtractPass ==
    /\ pc = "pass"
    /\ LET quota == scroll_limit(args.limit, Len(all_jobs))
           visible == SubSeq(page_cards, 1, rendered)
           new_jobs == extract_jobs_from_page(visible, quota, seen_job_ids, collection)
           m == merge_new_jobs(new_jobs, 1, jobs_on_page, seen_job_ids, quota)
           next_pc == IF Len(m.jobs) = last_job_count THEN "fallback"
                      ELSE IF Len(m.jobs) >= quota THEN after_extraction(m.jobs)
                      ELSE "pass"
       IN  /\ jobs_on_page' = m.jobs
           /\ seen_job_ids' = m.seen
           /\ shown' = [id \in JobIds |->
                            IF id \in CardIds(visible)
                            THEN shown[id] \cup {current_page} ELSE shown[id]]
           /\ IF Len(m.jobs) = last_job_count
              THEN /\ no_new_jobs_count' = no_new_jobs_count + 1
                   /\ UNCHANGED last_job_count
              ELSE /\ no_new_jobs_count' = 0
                   /\ last_job_count' = Len(m.jobs)
           /\ pc' = next_pc
           /\ LeavePage(next_pc)
    /\ detail_idx' = 0
    /\ scrolled' = NoScroll
    /\ UNCHANGED <<service, collection, all_jobs, current_page, has_next,
                   details, panel, clicked, trace, expanded, extracted_on,
                   waited, matcher, document, backend>>

\* _scroll_and_extract_all_jobs, lines 201-209 and 191: after a pass that
\* added nothing, the fallback scroll and the settle delay, then the loop
\* test.  The scroll is tried with no press failing and with each failing
\* press whose exception would leave _fallback_scroll.
FallbackScroll ==
    /\ pc = "fallback"
    /\ \E fail_at \in {f \in FailAts : f = 0 \/ fallback_scroll(f).raised} :
          IF fallback_scroll(fail_at).raised
          THEN /\ Fail(Exc("Error", "Keyboard.press: Target closed"))
               /\ UNCHANGED <<page_cards, rendered>>
          ELSE LET next_pc == IF while_test(Len(jobs_on_page),
                                            scroll_limit(args.limit, Len(all_jobs)),
                                            no_new_jobs_count)
                              THEN "pass"
                              ELSE after_extraction(jobs_on_page)
               IN  /\ pc' = next_pc
                   /\ IF next_pc = "pass"
                      THEN rendered' \in rendered..Len(page_cards)
                           /\ UNCHANGED page_cards
                      ELSE LeavePage(next_pc)
                   /\ UNCHANGED <<job_store, raised>>
    /\ last_job_count' = Len(jobs_on_page)
    /\ UNCHANGED <<args, result, walker, jobs_on_page, no_new_jobs_count,
                   expander, clicked, history, probes, matcher, document, backend>>

\* scrape, lines 137-146: the expansion of the next record of the page
FetchJobDetails ==
    /\ pc = "details"
    /\ detail_idx < Len(jobs_on_page)
    /\ LET i == detail_idx + 1
           job == jobs_on_page[i]
       IN  /\ \E p \in Panels :
                /\ panel' = p
                /\ details' = fetch_job_details(job.job_id, p)
                /\ jobs_on_page' = [jobs_on_page EXCEPT
                                       ![i] = apply_details(job, fetch_job_details(job.job_id, p))]
           /\ detail_idx' = i
           /\ expanded' = Append(expanded, [job_id |-> job.job_id,
                                            opened |-> details' # Nothing])
           /\ pc' = next_detail(i, Len(jobs_on_page), details')
    /\ UNCHANGED <<service, walker, last_job_count, no_new_jobs_count, browser,
                   trace, shown, extracted_on>>
    /\ UNCHANGED <<probes, matcher, document, backend>>

\* scrape, lines 148-158: the records of the page join all_jobs
ExtendPage ==
    /\ pc = "extend"
    /\ all_jobs' = all_jobs \o jobs_on_page
    /\ seen_job_ids' = seen_job_ids \cup Range(JobIdsOf(jobs_on_page))
    /\ extracted_on' = extracted_on \o [i \in 1..Len(jobs_on_page) |-> current_page]
    /\ job_store' = ServiceCallback_on_progress(job_store, args.task_id,
                        "Page " \o ToStr(current_page) \o ": "
                        \o ToStr(Len(all_jobs')) \o " jobs collected",
                        page_percent(current_page))
    /\ trace' = Append(trace, Event("on_progress", ToStr(page_percent(current_page))))
    /\ pc' = IF Len(all_jobs') >= args.limit THEN "finish" ELSE "next_page"
    /\ details' = Nothing
    /\ panel' = NoPanel
    /\ UNCHANGED <<args, raised, result, collection, current_page, has_next,
                   pageloop, detail_idx, browser, shown, expanded>>
    /\ UNCHANGED <<probes, matcher, document, backend>>

\* scrape, lines 161-166, with _go_to_next_page on these controls
GoToNextPageWith(controls) ==
    /\ pc = "next_page"
    /\ LET k == go_to_next_page(controls)
       IN  /\ clicked' = k
           /\ IF k = 0
              THEN /\ has_next' = "false"
                   /\ pc' = "finish"
                   /\ UNCHANGED <<current_page, trace>>
              ELSE /\ has_next' = "true"
                   /\ current_page' = current_page + 1
                   /\ trace' = Append(trace, Event("click", ""))
                   /\ pc' = "settle"
    /\ UNCHANGED <<service, collection, all_jobs, seen_job_ids, pageloop, expander,
                   page_cards, rendered, shown, expanded, extracted_on>>
    /\ UNCHANGED <<probes, matcher, document, backend>>

GoToNextPage == \E controls \in ControlConfigs : GoToNextPageWith(controls)

\* scrape, line 167 and the loop test: the settle delay, after which the
\* list of the next page is there
Settle ==
    /\ pc = "settle"
    /\ \E cards \in PageContents :
          /\ page_cards' = cards
          /\ rendered' \in 0..Len(cards)
    /\ clicked' = 0
    /\ pc' = loop_head(Len(all_jobs), current_page)
    /\ UNCHANGED <<service, walker, pageloop, expander, history>>
    /\ UNCHANGED <<probes, matcher, document, backend>>

\* A finish that reports completion before the last progress.
scrape_finish_calls_swapped(jobs) ==
    <<Event("on_complete", jobs), Event("on_progress", ToStr(100))>>

\* scrape, lines 172-173: the two notifier calls that end a walk, the
\* second one with the records scrape returns
scrape_finish_calls(jobs) ==
    <<Event("on_progress", ToStr(100)), Event("on_complete", jobs)>>

\* scrape, lines 170-176: trim, the last notifications, return
FinishScrape ==
    /\ pc = "finish"
    /\ all_jobs' = Take(all_jobs, args.limit)
    /\ job_store' = ServiceCallback_on_complete(
                        ServiceCallback_on_progress(job_store, args.task_id,
                                                    "Scraping complete", 100),
                        args.task_id, "JobCollection:" \o collection, all_jobs')
    /\ trace' = trace \o scrape_finish_calls(all_jobs')
    /\ result' = all_jobs'
    /\ pc' = "update_status"
    /\ UNCHANGED <<args, raised, collection, seen_job_ids, current_page, has_next,
                   pageloop, expander, browser, shown, expanded, extracted_on>>
    /\ UNCHANGED <<probes, matcher, document, backend>>

(***************************************************************************)
(* run_scrape_task after scrape returned                                   *)
(***************************************************************************)
\* Database.__init__, lines 12-23: the client made from the environment, or
\* None; it is read at the first call and stays what it was
Database_client(d) ==
    IF d.client = "unread" THEN {"client", "None"} ELSE {d.client}

\* how table(...).upsert(...).execute() goes
UpsertOutcomes == {"ok", "raises"}

\* An upsert without the try: the exception of execute leaves it.
upsert_jobs_unguarded(client, execute) ==
    IF client = "None" THEN Returned(FALSE)
    ELSE IF execute = "raises"
         THEN Raised(Exc("APIError", "duplicate key value violates unique constraint"))
         ELSE Returned(TRUE)

\* Database.upsert_jobs: False without a client (lines 29-31), True after
\* the upsert (lines 33-53), False when it raised (lines 55-57)
upsert_jobs(client, execute) ==
    IF client = "None" THEN Returned(FALSE)
    ELSE IF execute = "raises" THEN Returned(FALSE)
         ELSE Returned(TRUE)

\* A status update that announces the saving but leaves the record count
\* of the job untouched.
run_scrape_task_update_stale(store, task_id, jobs) ==
    [store EXCEPT
        ![task_id].message = "Saving " \o ToStr(Len(jobs)) \o " jobs to database...",
        ![task_id].progress = 95]

\* run_scrape_task, lines 87-89: the status after scrape returned jobs
run_scrape_task_update(store, task_id, jobs) ==
    [store EXCEPT
        ![task_id].jobs_collected = Len(jobs),
        ![task_id].message = "Saving " \o ToStr(Len(jobs)) \o " jobs to database...",
        ![task_id].progress = 95]

\* run_scrape_task, lines 95-97: the status after db.upsert_jobs returned
run_scrape_task_finalize(store, task_id, success) ==
    [store EXCEPT
        ![task_id].status = "completed",
        ![task_id].progress = 100,
        ![task_id].message = IF success THEN "Completed"
                             ELSE "Completed (DB save failed)"]

\* lines 87-89
UpdateStatus ==
    /\ pc = "update_status"
    /\ job_store' = run_scrape_task_update(job_store, args.task_id, result)
    /\ pc' = "save"
    /\ UNCHANGED <<args, raised, result, walker, pageloop, expander, browser, history>>
    /\ UNCHANGED <<probes, matcher, document, backend>>

\* lines 92-98: db.upsert_jobs on the client the environment gave, then the
\* status of a completed job
Finalize ==
    /\ pc = "save"
    /\ \E client \in Database_client(db), execute \in UpsertOutcomes :
          LET saved == upsert_jobs(client, execute)
          IN  /\ db' = [client |-> client,
                        upsert |-> IF client = "None" THEN "skipped" ELSE execute]
              /\ IF saved.ok
                 THEN /\ job_store' = run_scrape_task_finalize(job_store, args.task_id,
                                                               saved.value)
                      /\ pc' = "exit_browser"
                      /\ UNCHANGED raised
                 ELSE Fail(saved.exc)
    /\ UNCHANGED <<args, result, walker, pageloop, expander, browser, history>>
    /\ UNCHANGED <<probes, matcher, document, tasks, now>>

\* the with block is left: the browser is closed
ExitBrowser ==
    /\ pc = "exit_browser"
    /\ pc' = "done"
    /\ UNCHANGED <<service, walker, pageloop, expander, browser, history>>
    /\ UNCHANGED <<probes, matcher, document, backend>>

Next ==
    \/ CreateScrapeJob
    \/ StartTask
    \/ EnterBrowser
    \/ ConstructAndStart
    \/ Navigate
    \/ WaitForJobsList
    \/ LoadAllJobsOnPage
    \/ ExtractPass
    \/ FallbackScroll
    \/ FetchJobDetails
    \/ ExtendPage
    \/ GoToNextPage
    \/ Settle
    \/ FinishScrape
    \/ UpdateStatus
    \/ Finalize
    \/ ExitBrowser

Spec == Init /\ [][Next]_vars

(***************************************************************************)
(* The construction of the scraper and the navigation on their own, for    *)
(* every collection token.                                                 *)
(***************************************************************************)
\* every token of the enumeration by its characters
TokenInputs == {
    <<"r", "e", "c", "o", "m", "m", "e", "n", "d", "e", "d">>,
    <<"t", "o", "p", "-", "a", "p", "p", "l", "i", "c", "a", "n", "t">>,
    <<"e", "a", "s", "y", "-", "a", "p", "p", "l", "y">>,
    <<"h", "y", "b", "r", "i", "d">>,
    <<"r", "e", "m", "o", "t", "e", "-", "j", "o", "b", "s">>,
    <<"p", "a", "r", "t", "-", "t", "i", "m", "e", "-", "j", "o", "b", "s">>,
    <<"s", "u", "s", "t", "a", "i", "n", "a", "b", "i", "l", "i", "t", "y">>,
    <<"m", "a", "n", "u", "f", "a", "c", "t", "u", "r", "i", "n", "g">>,
    <<"d", "e", "f", "e", "n", "s", "e", "-", "a", "n", "d", "-", "s", "p",
      "a", "c", "e">>,
    <<"s", "o", "c", "i", "a", "l", "-", "i", "m", "p", "a", "c", "t">>,
    <<"g", "o", "v", "e", "r", "n", "m", "e", "n", "t">>,
    <<"p", "h", "a", "r", "m", "a", "c", "e", "u", "t", "i", "c", "a", "l",
      "s">>,
    <<"b", "i", "o", "t", "e", "c", "h", "n", "o", "l", "o", "g", "y">>,
    <<"c", "o", "n", "s", "t", "r", "u", "c", "t", "i", "o", "n">>,
    <<"r", "e", "a", "l", "-", "e", "s", "t", "a", "t", "e">>,
    <<"r", "e", "s", "t", "a", "u", "r", "a", "n", "t", "s">>,
    <<"r", "e", "t", "a", "i", "l">>,
    <<"h", "o", "s", "p", "i", "t", "a", "l", "i", "t", "y">>,
    <<"f", "i", "n", "a", "n", "c", "i", "a", "l", "-", "s", "e", "r", "v",
      "i", "c", "e", "s">>,
    <<"t", "r", "a", "n", "s", "p", "o", "r", "t", "a", "t", "i", "o", "n",
      "-", "a", "n", "d", "-", "l", "o", "g", "i", "s", "t", "i", "c", "s">>,
    <<"h", "o", "s", "p", "i", "t", "a", "l", "s", "-", "a", "n", "d", "-",
      "h", "e", "a", "l", "t", "h", "c", "a", "r", "e">>,
    <<"f", "o", "o", "d", "-", "a", "n", "d", "-", "b", "e", "v", "e", "r",
      "a", "g", "e", "s">>,
    <<"a", "p", "p", "a", "r", "e", "l", "-", "a", "n", "d", "-", "f", "a",
      "s", "h", "i", "o", "n">>,
    <<"m", "u", "s", "e", "u", "m", "s", "-", "h", "i", "s", "t", "o", "r",
      "i", "c", "a", "l", "-", "s", "i", "t", "e", "s", "-", "a", "n", "d",
      "-", "z", "o", "o", "s">>,
    <<"m", "e", "d", "i", "a">>,
    <<"p", "u", "b", "l", "i", "s", "h", "i", "n", "g">>,
    <<"d", "i", "g", "i", "t", "a", "l", "-", "s", "e", "c", "u", "r", "i",
      "t", "y">>,
    <<"h", "u", "m", "a", "n", "-", "r", "e", "s", "o", "u", "r", "c", "e",
      "s">>,
    <<"s", "t", "a", "f", "f", "i", "n", "g", "-", "a", "n", "d", "-", "r",
      "e", "c", "r", "u", "i", "t", "i", "n", "g">>,
    <<"m", "a", "r", "k", "e", "t", "i", "n", "g", "-", "a", "n", "d", "-",
      "a", "d", "v", "e", "r", "t", "i", "s", "i", "n", "g">>,
    <<"c", "i", "v", "i", "l", "-", "e", "n", "g">>,
    <<"h", "i", "g", "h", "e", "r", "-", "e", "d", "u">>,
    <<"e", "d", "u", "c", "a", "t", "i", "o", "n">>,
    <<"s", "m", "a", "l", "l", "-", "b", "u", "s", "i", "n", "e", "s", "s">>,
    <<"v", "o", "l", "u", "n", "t", "e", "e", "r">>,
    <<"n", "o", "n", "-", "p", "r", "o", "f", "i", "t", "s">>,
    <<"h", "u", "m", "a", "n", "-", "s", "e", "r", "v", "i", "c", "e", "s">>,
    <<"c", "a", "r", "e", "e", "r", "-", "g", "r", "o", "w", "t", "h">>,
    <<"w", "o", "r", "k", "-", "l", "i", "f", "e", "-", "b", "a", "l", "a",
      "n", "c", "e">>
}

\* the state in which run_scrape_task constructs the scraper (line 84):
\* the job is starting and the browser is up
UrlInit ==
    /\ db = NoDb
    /\ tasks = NoTasks
    /\ now = 0
    /\ \E task_id \in TaskIds, coll \in TokenInputs \cup CollectionInputs :
            /\ job_store = (task_id :> ScrapeStatus(task_id, "starting", PyStr(coll)))
            /\ args = [task_id |-> task_id, collection |-> coll, limit |-> 1,
                       pages |-> 1, details |-> FALSE]
    /\ pc = "load_session"
    /\ raised = NoExc
    /\ result = << >>
    /\ collection = NoneVal
    /\ all_jobs = << >>
    /\ seen_job_ids = {}
    /\ current_page = 0
    /\ has_next = "unset"
    /\ jobs_on_page = << >>
    /\ last_job_count = 0
    /\ no_new_jobs_count = 0
    /\ detail_idx = 0
    /\ details = Nothing
    /\ panel = NoPanel
    /\ page_cards = << >>
    /\ rendered = 0
    /\ clicked = 0
    /\ trace = << >>
    /\ shown = [id \in JobIds |-> {}]
    /\ expanded = << >>
    /\ extracted_on = << >>
    /\ waited = NoWait
    /\ scrolled = NoScroll
    /\ analysis_text = << >>
    /\ analysis = Nothing
    /\ document = NoDocument

UrlNext == ConstructAndStart \/ Navigate

UrlSpec == UrlInit /\ [][UrlNext]_vars

(***************************************************************************)
(* One pagination attempt on its own: _go_to_next_page on controls that    *)
(* are part of the state.                                                  *)
(***************************************************************************)
\* the record the first page gave
FirstJob == RecommendedJob("101", "hybrid", "Dev", "Acme", "Oslo",
                           "False", "True", "True")

\* the walk for two records over two pages after its first page gave one
\* record: scrape is at line 161
PaginateInit ==
    /\ db = NoDb
    /\ tasks = NoTasks
    /\ now = 0
    /\ \E task_id \in TaskIds :
          /\ args = [task_id |-> task_id, collection |-> <<"h", "y", "b", "r", "i", "d">>,
                     limit |-> 2, pages |-> 2, details |-> FALSE]
          /\ job_store =
                ServiceCallback_on_progress(
                    ServiceCallback_on_progress(
                        ServiceCallback_on_start(
                            (task_id :> ScrapeStatus(task_id, "starting", "hybrid")),
                            task_id, "JobCollection:hybrid"),
                        task_id, "Navigated to hybrid jobs page", 10),
                    task_id, "Page 1: 1 jobs collected", page_percent(1))
    /\ pc = "next_page"
    /\ raised = NoExc
    /\ result = << >>
    /\ collection = "hybrid"
    /\ all_jobs = <<FirstJob>>
    /\ seen_job_ids = {"101"}
    /\ current_page = 1
    /\ has_next = "unset"
    /\ jobs_on_page = <<FirstJob>>
    /\ last_job_count = 1
    /\ no_new_jobs_count = max_no_new_jobs
    /\ detail_idx = 0
    /\ details = Nothing
    /\ panel = NoPanel
    /\ page_cards = << >>
    /\ rendered = 0
    /\ clicked = 0
    /\ trace = <<Event("on_start", collection_url("hybrid")),
                 Event("goto", collection_url("hybrid")),
                 Event("on_progress", ToStr(10)),
                 Event("on_progress", ToStr(page_percent(1)))>>
    /\ shown = [id \in JobIds |-> IF id = "101" THEN {1} ELSE {}]
    /\ expanded = << >>
    /\ extracted_on = <<1>>
    /\ waited = NoWait
    /\ scrolled = NoScroll
    /\ analysis_text = << >>
    /\ analysis = Nothing
    /\ document \in ControlConfigs

\* _go_to_next_page on the controls of the page
Paginate == GoToNextPageWith(document)

PaginateNext == Paginate \/ Settle \/ FinishScrape

PaginateSpec == PaginateInit /\ [][PaginateNext]_vars

(***************************************************************************)
(* One extraction pass on its own: _extract_jobs_from_page applied to a    *)
(* list of cards of any kind.                                              *)
(***************************************************************************)
\* the cards of the longer lists
ParserCards ==
    {Card("101", NoneVal), Card("102", NoneVal), Card(NoneVal, "103"),
     Card(NoneVal, NoneVal),
     CardOf("103", NoneVal, ElemRaises, CompanyText, LocationText,
            <<"Promoted">>, "True"),
     CardOf("", RaiseVal, TitleText, CompanyText, LocationText,
            <<"Promoted">>, "True")}

\* the lists of cards a pass is applied to
ParserPages ==
    {<<c>> : c \in AllCards} \cup [1..MaxParse -> ParserCards]

ParserInit ==
    /\ db = NoDb
    /\ tasks = NoTasks
    /\ now = 0
    /\ job_store = << >>
    /\ \E limit \in {1, MaxParse} : args = [NoArgs EXCEPT !.limit = limit]
    /\ pc = "parse"
    /\ raised = NoExc
    /\ result = << >>
    /\ collection = "hybrid"
    /\ all_jobs = << >>
    /\ seen_job_ids \in {{}, {"101"}}
    /\ current_page = 1
    /\ has_next = "unset"
    /\ jobs_on_page = << >>
    /\ last_job_count = 0
    /\ no_new_jobs_count = 0
    /\ detail_idx = 0
    /\ details = Nothing
    /\ panel = NoPanel
    /\ page_cards \in ParserPages
    /\ rendered = Len(page_cards)
    /\ clicked = 0
    /\ trace = << >>
    /\ shown = [id \in JobIds |-> {}]
    /\ expanded = << >>
    /\ extracted_on = << >>
    /\ waited = NoWait
    /\ scrolled = NoScroll
    /\ analysis_text = << >>
    /\ analysis = Nothing
    /\ document = NoDocument

\* _extract_jobs_from_page(limit, seen_job_ids) on the cards of the page
ParsePage ==
    /\ pc = "parse"
    /\ jobs_on_page' = extract_jobs_from_page(page_cards, args.limit,
                                              seen_job_ids, collection)
    /\ pc' = "parsed"
    /\ UNCHANGED <<service, walker, last_job_count, no_new_jobs_count,
                   expander, browser, history>>
    /\ UNCHANGED <<probes, matcher, document, backend>>

ParserNext == ParsePage

ParserSpec == ParserInit /\ [][ParserNext]_vars

(***************************************************************************)
(* The identifier of a card read from the href of its title link.          *)
(***************************************************************************)
\* the hrefs of a title link, by their parts
HrefHeads == {<< >>, <<"/", "j", "o", "b", "s">>,
              <<"h", "t", "t", "p", "s", ":", "/", "/", "l", "i", ".", "c", "o",
                "/", "j", "o", "b", "s">>}
HrefPaths == {ViewPath, <<"/", "V", "i", "e", "w", "/">>,
              <<"/", "v", "i", "e", "w", "s", "/">>, <<"v", "i", "e", "w", "/">>}
HrefDigits == {<< >>, <<"7">>, <<"4", "2">>,
               <<"1", "2", "3", "4", "5", "6", "7", "8", "9">>}
HrefTails == {<< >>, <<"/">>, <<"/", "?", "x", "=", "1">>, <<"a", "/">>,
              <<"?", "t", "=", "5">>, <<"/", "v", "i", "e", "w", "/", "8">>}
Hrefs ==
    {head \o path \o digits \o tail :
        head \in HrefHeads, path \in HrefPaths, digits \in HrefDigits,
        tail \in HrefTails}

\* a card whose identifier attribute and title link are these
LinkCard(attr, href) ==
    [data_job_id |-> attr, href |-> href]

LinkInit ==
    /\ db = NoDb
    /\ tasks = NoTasks
    /\ now = 0
    /\ job_store = << >>
    /\ args = [NoArgs EXCEPT !.limit = 1]
    /\ pc = "parse"
    /\ raised = NoExc
    /\ result = << >>
    /\ collection = "hybrid"
    /\ all_jobs = << >>
    /\ seen_job_ids = {}
    /\ current_page = 1
    /\ has_next = "unset"
    /\ jobs_on_page = << >>
    /\ last_job_count = 0
    /\ no_new_jobs_count = 0
    /\ detail_idx = 0
    /\ details = Nothing
    /\ panel = NoPanel
    /\ \E attr \in {NoneVal, "", "101"}, href \in Hrefs \cup {NoElem, ElemRaises} :
            /\ document = LinkCard(attr, href)
            /\ page_cards = <<Card(attr, link_view_id(href))>>
    /\ rendered = 1
    /\ clicked = 0
    /\ trace = << >>
    /\ shown = [id \in JobIds |-> {}]
    /\ expanded = << >>
    /\ extracted_on = << >>
    /\ waited = NoWait
    /\ scrolled = NoScroll
    /\ analysis_text = << >>
    /\ analysis = Nothing

LinkSpec == LinkInit /\ [][ParserNext]_vars

(***************************************************************************)
(* The parse of a match-analysis text on its own.                          *)
(***************************************************************************)
\* the lines a response is made of
CountLine ==
    <<"M", "a", "t", "c", "h", "e", "s", " ", "2", " ", "o", "f", " ",
      "t", "h", "e", " ", "5", " ", "r", "e", "q", "u", "i", "r", "e", "d",
      " ", "q", "u", "a", "l", "i", "f", "i", "c", "a", "t", "i", "o", "n", "s">>
ResponseLines ==
    {CountLine,
     <<CheckMark, " ", "S", "Q", "L">>,
     <<" ", CheckMark, " ", "G", "o", " ">>,
     <<CheckMark, " ">>,
     <<QuestionMark, " ", "A", "W", "S">>,
     <<"G", "o", "o", "d", " ", "m", "a", "t", "c", "h">>,
     << >>}

\* lines joined by a separator
RECURSIVE str_join_lines(_, _)
str_join_lines(lines, sep) ==
    IF lines = << >> THEN << >>
    ELSE IF Len(lines) = 1 THEN Head(lines)
    ELSE Head(lines) \o sep \o str_join_lines(Tail(lines), sep)

\* the texts of a response: up to MaxLines lines, separated by line feeds
\* as inner_text() gives them, or by the characters backslash and n
ResponseTexts ==
    {str_join_lines(ls, sep) :
        ls \in UNION {[1..n -> ResponseLines] : n \in 1..MaxLines},
        sep \in {<<LineFeed>>, SplitSeparator}}

MatchInit ==
    /\ db = NoDb
    /\ tasks = NoTasks
    /\ now = 0
    /\ job_store = << >>
    /\ args = NoArgs
    /\ pc = "match"
    /\ raised = NoExc
    /\ result = << >>
    /\ collection = NoneVal
    /\ all_jobs = << >>
    /\ seen_job_ids = {}
    /\ current_page = 0
    /\ has_next = "unset"
    /\ jobs_on_page = << >>
    /\ last_job_count = 0
    /\ no_new_jobs_count = 0
    /\ detail_idx = 0
    /\ details = Nothing
    /\ panel = NoPanel
    /\ page_cards = << >>
    /\ rendered = 0
    /\ clicked = 0
    /\ trace = << >>
    /\ shown = [id \in JobIds |-> {}]
    /\ expanded = << >>
    /\ extracted_on = << >>
    /\ waited = NoWait
    /\ scrolled = NoScroll
    /\ analysis_text \in ResponseTexts
    /\ analysis = Nothing
    /\ document = NoDocument

\* _extract_match_analysis, lines 454-497, on the text of the response
ParseMatchAnalysis ==
    /\ pc = "match"
    /\ analysis' = parse_match_analysis(analysis_text)
    /\ pc' = "matched"
    /\ UNCHANGED <<service, walker, pageloop, expander, browser, history,
                   probes, analysis_text, document, backend>>

MatchNext == ParseMatchAnalysis

MatchSpec == MatchInit /\ [][MatchNext]_vars

(***************************************************************************)
(* One expansion on its own: _fetch_job_details applied to a record whose  *)
(* detail view is described element by element.                            *)
(***************************************************************************)
\* what a description selector finds
DescriptionElems ==
    {NoElem, ElemRaises, << >>, <<" ">>, <<"G", "o">>, <<" ", "G", "o", "\n">>,
     AboutTheJob, AboutTheJob \o <<"\n", "G", "o">>}

\* the findings of the description selectors: the leading ones vary
Descriptions ==
    LET n == Min(MaxCandidates, NumDescriptionSelectors)
    IN  {d \o [i \in 1..(NumDescriptionSelectors - n) |-> NoElem] :
            d \in [1..n -> DescriptionElems]}

\* the candidate cards of a hiring-team panel
HirerCardKinds ==
    {HirerCard(<<"A", "n", "n">>, NoElem, "ok"),
     HirerCard(NoElem, <<"B", "o", "\n", "H", "R">>, "ok"),
     HirerCard(NoElem, NoElem, "ok"),
     HirerCard(<<" ">>, <<"C", "y">>, "ok"),
     HirerCard(NoElem, <<" ">>, "ok"),
     HirerCard(NoElem, <<"\\", "n", "D">>, "ok"),
     HirerCard(ElemRaises, NoElem, "ok"),
     HirerCard(<<"E", "d">>, NoElem, "raise")}
HirerPanels ==
    UNION {[1..n -> HirerCardKinds] : n \in 0..MaxHirers}

\* the buttons and the responses of a match-analysis panel
ShowButtons ==
    {ShowButton(selector, visible_from, click) :
        selector \in {1, NumMatchBtnSelectors},
        visible_from \in 0..(NumPollRounds + 1),
        click \in {"ok", "raise"}}
AnalysisElems == {NoElem, ElemRaises, << >>, CountLine}

\* the detail views: one of the three panels varies at a time
PlainView(card) ==
    DetailView(card, [i \in 1..NumDescriptionSelectors |-> NoElem], << >>,
               ShowButton(1, 0, "ok"), NoElem)
DetailViews ==
    UNION {{[PlainView(card) EXCEPT !.description = d] : d \in Descriptions}
           \cup {[PlainView(card) EXCEPT !.hirer_cards = h] : h \in HirerPanels}
           \cup {[PlainView(card) EXCEPT !.show_button = b, !.analysis_elem = a,
                                         !.description = d] :
                    b \in ShowButtons, a \in AnalysisElems,
                    d \in {[i \in 1..NumDescriptionSelectors |-> NoElem],
                           [i \in 1..NumDescriptionSelectors |-> <<"G", "o">>]}} :
           card \in {"by_id", "by_link", "missing", "raises"}}

ExpandInit ==
    /\ db = NoDb
    /\ tasks = NoTasks
    /\ now = 0
    /\ job_store = << >>
    /\ args = [NoArgs EXCEPT !.details = TRUE]
    /\ pc = "expand"
    /\ raised = NoExc
    /\ result = << >>
    /\ collection = "hybrid"
    /\ all_jobs = << >>
    /\ seen_job_ids = {"101"}
    /\ current_page = 1
    /\ has_next = "unset"
    /\ jobs_on_page = <<RecommendedJob("101", "hybrid", "Dev", "Acme", "Oslo",
                                       "False", "True", "True")>>
    /\ last_job_count = 1
    /\ no_new_jobs_count = 0
    /\ detail_idx = 0
    /\ details = Nothing
    /\ panel = NoPanel
    /\ page_cards = <<Card("101", NoneVal)>>
    /\ rendered = 1
    /\ clicked = 0
    /\ trace = << >>
    /\ shown = [id \in JobIds |-> {}]
    /\ expanded = << >>
    /\ extracted_on = << >>
    /\ waited = NoWait
    /\ scrolled = NoScroll
    /\ analysis_text = << >>
    /\ analysis = Nothing
    /\ document \in DetailViews

\* scrape, lines 140-144, for the record of the page: its expansion on the
\* detail view, and the assignment of what it returned
ExpandRecord ==
    /\ pc = "expand"
    /\ LET job == jobs_on_page[detail_idx + 1]
           fetched == fetch_job_details_view(job.job_id, document)
       IN  /\ details' = fetched.details
           /\ jobs_on_page' = [jobs_on_page EXCEPT
                                  ![detail_idx + 1] = apply_details(job, fetched.details)]
           /\ trace' = trace \o fetched.calls
    /\ detail_idx' = detail_idx + 1
    /\ pc' = "expanded"
    /\ UNCHANGED <<service, walker, last_job_count, no_new_jobs_count, panel,
                   browser, shown, expanded, extracted_on, probes, matcher,
                   document, backend>>

ExpandNext == ExpandRecord

ExpandSpec == ExpandInit /\ [][ExpandNext]_vars

(***************************************************************************)
(* The sample scraper (samples/scrape_recommended_jobs.py): employment     *)
(* type and workplace type of a card.                                      *)
(***************************************************************************)
\* how many metadata fragments a card holds
MaxFragments == 3

\* the keywords of lines 954 and 956
EmploymentKeywords ==
    {<<"f", "u", "l", "l", "-", "t", "i", "m", "e">>,
     <<"p", "a", "r", "t", "-", "t", "i", "m", "e">>,
     <<"c", "o", "n", "t", "r", "a", "c", "t">>,
     <<"i", "n", "t", "e", "r", "n", "s", "h", "i", "p">>,
     <<"t", "e", "m", "p", "o", "r", "a", "r", "y">>}
WorkplaceKeywords ==
    {<<"r", "e", "m", "o", "t", "e">>, <<"o", "n", "-", "s", "i", "t", "e">>,
     <<"h", "y", "b", "r", "i", "d">>}

\* any(t in text_lower for t in keywords)
any_in(keywords, text_lower) == \E t \in keywords : str_in(t, text_lower)

\* A scan that keeps the first match of each category.
RECURSIVE classify_metadata_first(_, _, _, _)
classify_metadata_first(metadata_items, k, employment_type, workplace_type) ==
    IF k > Len(metadata_items)
    THEN [employment_type |-> employment_type, workplace_type |-> workplace_type]
    ELSE LET text == metadata_items[k]
             text_lower == str_strip(str_lower(text))
         IN  IF text = ElemRaises
             THEN [employment_type |-> employment_type,
                   workplace_type |-> workplace_type]
             ELSE classify_metadata_first(metadata_items, k + 1,
                      IF employment_type = NoneVal
                         /\ any_in(EmploymentKeywords, text_lower)
                      THEN PyStr(str_strip(text)) ELSE employment_type,
                      IF workplace_type = NoneVal
                         /\ any_in(WorkplaceKeywords, text_lower)
                      THEN PyStr(str_strip(text)) ELSE workplace_type)

\* lines 951-959 from item k on, with the two values assigned so far; an
\* item is the characters of its inner text, or ElemRaises when reading it
\* raises, which ends the scan (lines 958-959)
RECURSIVE classify_metadata(_, _, _, _)
classify_metadata(metadata_items, k, employment_type, workplace_type) ==
    IF k > Len(metadata_items)
    THEN [employment_type |-> employment_type, workplace_type |-> workplace_type]
    ELSE LET text == metadata_items[k]
             text_lower == str_strip(str_lower(text))            \* line 953
         IN  IF text = ElemRaises
             THEN [employment_type |-> employment_type,
                   workplace_type |-> workplace_type]
             ELSE IF any_in(EmploymentKeywords, text_lower)      \* line 954
             THEN classify_metadata(metadata_items, k + 1,
                                    PyStr(str_strip(text)), workplace_type)
             ELSE IF any_in(WorkplaceKeywords, text_lower)       \* line 956
             THEN classify_metadata(metadata_items, k + 1,
                                    employment_type, PyStr(str_strip(text)))
             ELSE classify_metadata(metadata_items, k + 1,
                                    employment_type, workplace_type)

\* JobListing(...), lines 976-990: the fields read here
JobListing(job_id, employment_type, workplace_type) ==
    [job_id |-> job_id, employment_type |-> employment_type,
     workplace_type |-> workplace_type]

\* the metadata fragments of a card
Fragments ==
    {<<"F", "u", "l", "l", "-", "t", "i", "m", "e">>,
     <<"C", "o", "n", "t", "r", "a", "c", "t">>,
     <<" ", "P", "a", "r", "t", "-", "t", "i", "m", "e">>,
     <<"R", "e", "m", "o", "t", "e">>,
     <<"H", "y", "b", "r", "i", "d">>,
     <<"O", "n", "-", "s", "i", "t", "e", " ">>,
     <<"O", "s", "l", "o">>,
     <<"R", "e", "m", "o", "t", "e", " ", "c", "o", "n", "t", "r", "a", "c", "t">>,
     ElemRaises}
MetadataLists == UNION {[1..n -> Fragments] : n \in 0..MaxFragments}

MetadataInit ==
    /\ db = NoDb
    /\ tasks = NoTasks
    /\ now = 0
    /\ job_store = << >>
    /\ args = [NoArgs EXCEPT !.limit = 1]
    /\ pc = "classify"
    /\ raised = NoExc
    /\ result = << >>
    /\ collection = "hybrid"
    /\ all_jobs = << >>
    /\ seen_job_ids = {}
    /\ current_page = 1
    /\ has_next = "unset"
    /\ jobs_on_page = << >>
    /\ last_job_count = 0
    /\ no_new_jobs_count = 0
    /\ detail_idx = 0
    /\ details = Nothing
    /\ panel = NoPanel
    /\ page_cards = <<Card("101", NoneVal)>>
    /\ rendered = 1
    /\ clicked = 0
    /\ trace = << >>
    /\ shown = [id \in JobIds |-> {}]
    /\ expanded = << >>
    /\ extracted_on = << >>
    /\ waited = NoWait
    /\ scrolled = NoScroll
    /\ analysis_text = << >>
    /\ analysis = Nothing
    /\ document \in MetadataLists

\* the sample's _parse_job_card on the card, whose metadata items are the
\* fragments
ClassifyMetadata ==
    /\ pc = "classify"
    /\ LET types == classify_metadata(document, 1, NoneVal, NoneVal)
       IN  jobs_on_page' = <<JobListing(page_cards[1].data_job_id,
                                        types.employment_type,
                                        types.workplace_type)>>
    /\ pc' = "classified"
    /\ UNCHANGED <<service, walker, last_job_count, no_new_jobs_count, expander,
                   browser, history, probes, matcher, document, backend>>

MetadataNext == ClassifyMetadata

MetadataSpec == MetadataInit /\ [][MetadataNext]_vars

(***************************************************************************)
(* A long walk, seen from one of its pages: scrape at line 148 on any page *)
(* of a walk that took one record from each page before it.                *)
(***************************************************************************)
\* the pages of the longest walk looked at
MaxWalk == 7

\* the record page n of the long walk gave
WalkJob(n) == RecommendedJob(ToStr(200 + n), "hybrid", "Dev", "Acme", "Oslo",
                             "False", "True", "True")

\* the notifier calls and clicks of the pages before page p
WalkTrace(p) ==
    <<Event("on_start", collection_url("hybrid")),
      Event("goto", collection_url("hybrid")),
      Event("on_progress", ToStr(10))>>
    \o [k \in 1..(2 * (p - 1)) |->
            IF k % 2 = 1
            THEN Event("on_progress", ToStr(page_percent((k + 1) \div 2)))
            ELSE Event("click", "")]

\* the job store when the walk reaches page p
WalkStore(task_id, p) ==
    LET started == ServiceCallback_on_progress(
                       ServiceCallback_on_start(
                           (task_id :> ScrapeStatus(task_id, "starting", "hybrid")),
                           task_id, "JobCollection:hybrid"),
                       task_id, "Navigated to hybrid jobs page", 10)
    IN  IF p = 1 THEN started
        ELSE ServiceCallback_on_progress(started, task_id,
                 "Page " \o ToStr(p - 1) \o ": " \o ToStr(p - 1) \o " jobs collected",
                 page_percent(p - 1))

\* page p gave one record more; the limit is met by it, or by the next one
ProgressInit ==
    /\ db = NoDb
    /\ tasks = NoTasks
    /\ now = 0
    /\ \E task_id \in TaskIds, p \in 1..MaxWalk, limit \in 1..(MaxWalk + 1) :
          /\ limit \in {p, p + 1}
          /\ args = [task_id |-> task_id, collection |-> <<"h", "y", "b", "r", "i", "d">>,
                     limit |-> limit, pages |-> MaxWalk, details |-> FALSE]
          /\ job_store = WalkStore(task_id, p)
          /\ all_jobs = [i \in 1..(p - 1) |-> WalkJob(i)]
          /\ seen_job_ids = {WalkJob(i).job_id : i \in 1..p}
          /\ current_page = p
          /\ has_next = IF p = 1 THEN "unset" ELSE "true"
          /\ jobs_on_page = <<WalkJob(p)>>
          /\ trace = WalkTrace(p)
          /\ extracted_on = [i \in 1..(p - 1) |-> i]
    /\ pc = "extend"
    /\ raised = NoExc
    /\ result = << >>
    /\ collection = "hybrid"
    /\ last_job_count = 1
    /\ no_new_jobs_count = 0
    /\ detail_idx = 0
    /\ details = Nothing
    /\ panel = NoPanel
    /\ page_cards = << >>
    /\ rendered = 0
    /\ clicked = 0
    /\ shown = [id \in JobIds |-> {}]
    /\ expanded = << >>
    /\ waited = NoWait
    /\ scrolled = NoScroll
    /\ analysis_text = << >>
    /\ analysis = Nothing
    /\ document = NoDocument

ProgressNext ==
    \/ ExtendPage
    \/ GoToNextPage
    \/ Settle
    \/ FinishScrape
    \/ UpdateStatus
    \/ Finalize
    \/ ExitBrowser

ProgressSpec == ProgressInit /\ [][ProgressNext]_vars

(***************************************************************************)
(* The service with several jobs: one background task per job on one event *)
(* loop.  A step is what a task does between two of its await points that  *)
(* let another task write the store; the walk is followed through its     *)
(* notifier calls.                                                         *)
(***************************************************************************)
\* how many jobs are submitted
MaxJobs == 2

\* how far the clock is followed
MaxClock == 2

\* uuid4 identifiers: a fresh one for every job
ServiceTaskIds == {"task-" \o ToStr(n) : n \in 1..MaxJobs}

\* the collections submitted: a token, and a string that is none
ServiceCollections == {<<"h", "y", "b", "r", "i", "d">>, <<"b", "o", "g", "u", "s">>}

\* ScrapeStatus(id=..., status=..., collection=..., created_at=now,
\* updated_at=now) of lines 57-63 and 113-119
ScrapeStatusAt(id, status, coll, t) ==
    [id |-> id, status |-> status, collection |-> coll, progress |-> 0,
     message |-> NoneVal, jobs_collected |-> 0, error |-> NoneVal,
     created_at |-> t, updated_at |-> t]

\* job_store[task_id].updated_at = datetime.now().isoformat()
touch(store, task_id, t) ==
    IF task_id \in DOMAIN store
    THEN [store EXCEPT ![task_id].updated_at = t]
    ELSE store

\* A creation that starts its record from the one in the store.
create_status_kept(store, task_id, status, coll, t) ==
    IF task_id \in DOMAIN store
    THEN [store EXCEPT ![task_id].status = status]
    ELSE (task_id :> ScrapeStatusAt(task_id, status, coll, t)) @@ store

\* job_store[task_id] = ScrapeStatus(...): lines 57-63 and 113-119
create_status(store, task_id, status, coll, t) ==
    (task_id :> ScrapeStatusAt(task_id, status, coll, t)) @@ store

\* A progress callback that writes the record of every job.
on_progress_all(store, task_id, message, percent, t) ==
    [u \in DOMAIN store |->
        [store[u] EXCEPT !.message = message, !.progress = percent,
                         !.updated_at = t]]

\* ServiceCallback.on_progress with its time stamp (lines 30-34)
on_progress_at(store, task_id, message, percent, t) ==
    touch(ServiceCallback_on_progress(store, task_id, message, percent), task_id, t)

\* run_scrape_task, lines 100-105
except_at(store, task_id, e, t) ==
    touch(run_scrape_task_except(store, task_id, e), task_id, t)

\* run_scrape_task, lines 87-98: no await in between
save_at(store, task_id, jobs, success, t) ==
    touch(run_scrape_task_finalize(run_scrape_task_update(store, task_id, jobs),
                                   task_id, success),
          task_id, t)

\* the task of a job: its arguments, where it stands, the page and the
\* number of records of its walk
Task(coll, limit, pages, task_pc) ==
    [collection |-> coll, limit |-> limit, pages |-> pages, pc |-> task_pc,
     current_page |-> 0, all_jobs |-> 0]

ServiceInit ==
    /\ db = NoDb
    /\ tasks = NoTasks
    /\ now = 0
    /\ job_store = << >>
    /\ args = NoArgs
    /\ pc = "service"
    /\ raised = NoExc
    /\ result = << >>
    /\ collection = NoneVal
    /\ all_jobs = << >>
    /\ seen_job_ids = {}
    /\ current_page = 0
    /\ has_next = "unset"
    /\ jobs_on_page = << >>
    /\ last_job_count = 0
    /\ no_new_jobs_count = 0
    /\ detail_idx = 0
    /\ details = Nothing
    /\ panel = NoPanel
    /\ page_cards = << >>
    /\ rendered = 0
    /\ clicked = 0
    /\ trace = << >>
    /\ shown = [id \in JobIds |-> {}]
    /\ expanded = << >>
    /\ extracted_on = << >>
    /\ waited = NoWait
    /\ scrolled = NoScroll
    /\ analysis_text = << >>
    /\ analysis = Nothing
    /\ document = NoDocument

\* what a step of the service leaves alone
ServiceFrame ==
    UNCHANGED <<args, pc, raised, result, walker, pageloop, expander, browser,
                history, probes, matcher, document>>

\* the clock moves on
Tick ==
    /\ now < MaxClock
    /\ now' = now + 1
    /\ UNCHANGED <<job_store, db, tasks>>
    /\ ServiceFrame

\* create_scrape_job (lines 110-124): the pending record, the task scheduled
SubmitJob ==
    /\ \E task_id \in ServiceTaskIds \ DOMAIN job_store,
          coll \in ServiceCollections,
          limit \in 1..MaxLimit,
          pages \in 1..MaxPages :
            /\ job_store' = create_status(job_store, task_id, "pending", PyStr(coll), now)
            /\ tasks' = (task_id :> Task(coll, limit, pages, "scheduled")) @@ tasks
    /\ UNCHANGED <<db, now>>
    /\ ServiceFrame

\* the task moves to a position
Goto(t, task_pc) == tasks' = [tasks EXCEPT ![t].pc = task_pc]

\* the except branch of the task, after which it is over
TaskFail(t, e) ==
    /\ job_store' = except_at(job_store, t, e, now)
    /\ Goto(t, "done")

\* run_scrape_task, lines 55-67, up to the start of the browser
TaskStart(t) ==
    /\ tasks[t].pc = "scheduled"
    /\ job_store' = create_status(job_store, t, "starting",
                                  PyStr(tasks[t].collection), now)
    /\ Goto(t, "browser")
    /\ UNCHANGED <<db, now>>
    /\ ServiceFrame

\* async with BrowserManager(...): the browser starts, or starting it raises
TaskEnterBrowser(t) ==
    /\ tasks[t].pc = "browser"
    /\ \/ Goto(t, "load_session") /\ UNCHANGED job_store
       \/ TaskFail(t, Exc("Error", "BrowserType.launch: executable not found"))
    /\ UNCHANGED <<db, now>>
    /\ ServiceFrame

\* lines 69-84, and scrape up to its navigation (lines 110-118)
TaskConstructAndStart(t) ==
    /\ tasks[t].pc = "load_session"
    /\ LET r == JobCollectionScraper_init(tasks[t].collection)
       IN  IF r.ok
           THEN /\ job_store' = ServiceCallback_on_start(job_store, t,
                                    "JobCollection:" \o r.value)
                /\ tasks' = [tasks EXCEPT ![t].pc = "navigate",
                                          ![t].current_page = 1]
           ELSE TaskFail(t, r.exc)
    /\ UNCHANGED <<db, now>>
    /\ ServiceFrame

\* scrape, lines 118-121: the navigation returns or raises
TaskNavigate(t) ==
    /\ tasks[t].pc = "navigate"
    /\ \/ /\ job_store' = on_progress_at(job_store, t,
                              "Navigated to " \o PyStr(tasks[t].collection)
                              \o " jobs page", 10, now)
          /\ Goto(t, "page")
       \/ TaskFail(t, Exc("TimeoutError", "Page.goto: Timeout 30000ms exceeded."))
    /\ UNCHANGED <<db, now>>
    /\ ServiceFrame

\* scrape, lines 121-167: one turn of the page loop, which gives n records
\* (none: the loop is left); the helpers of the loop catch what their calls
\* raise
TaskPage(t) ==
    /\ tasks[t].pc = "page"
    /\ \E n \in 0..(tasks[t].limit - tasks[t].all_jobs), next \in BOOLEAN :
          LET total == tasks[t].all_jobs + n
              page == tasks[t].current_page
          IN  IF n = 0
              THEN /\ Goto(t, "finish")
                   /\ UNCHANGED job_store
              ELSE /\ job_store' = on_progress_at(job_store, t,
                                       "Page " \o ToStr(page) \o ": " \o ToStr(total)
                                       \o " jobs collected", page_percent(page), now)
                   /\ tasks' = [tasks EXCEPT
                         ![t].all_jobs = total,
                         ![t].current_page =
                             IF total < tasks[t].limit /\ next THEN page + 1 ELSE page,
                         ![t].pc =
                             IF total < tasks[t].limit /\ next
                                /\ page + 1 <= tasks[t].pages
                             THEN "page" ELSE "finish"]
    /\ UNCHANGED <<db, now>>
    /\ ServiceFrame

\* scrape, lines 170-176
TaskFinishScrape(t) ==
    /\ tasks[t].pc = "finish"
    /\ job_store' = ServiceCallback_on_complete(
                        on_progress_at(job_store, t, "Scraping complete", 100, now),
                        t, "JobCollection:" \o PyStr(tasks[t].collection), << >>)
    /\ Goto(t, "save")
    /\ UNCHANGED <<db, now>>
    /\ ServiceFrame

\* run_scrape_task, lines 87-98
TaskSave(t) ==
    /\ tasks[t].pc = "save"
    /\ \E client \in Database_client(db), execute \in UpsertOutcomes :
          LET saved == upsert_jobs(client, execute)
          IN  /\ db' = [client |-> client,
                        upsert |-> IF client = "None" THEN "skipped" ELSE execute]
              /\ IF saved.ok
                 THEN /\ job_store' = save_at(job_store, t,
                                              [i \in 1..tasks[t].all_jobs |-> i],
                                              saved.value, now)
                      /\ Goto(t, "exit_browser")
                 ELSE TaskFail(t, saved.exc)
    /\ UNCHANGED now
    /\ ServiceFrame

\* the with block is left
TaskExitBrowser(t) ==
    /\ tasks[t].pc = "exit_browser"
    /\ Goto(t, "done")
    /\ UNCHANGED <<job_store, db, now>>
    /\ ServiceFrame

\* the event loop runs one of its ready tasks up to its next await
TaskStep(t) ==
    \/ TaskStart(t)
    \/ TaskEnterBrowser(t)
    \/ TaskConstructAndStart(t)
    \/ TaskNavigate(t)
    \/ TaskPage(t)
    \/ TaskFinishScrape(t)
    \/ TaskSave(t)
    \/ TaskExitBrowser(t)

ServiceNext ==
    \/ SubmitJob
    \/ Tick
    \/ \E t \in DOMAIN tasks : TaskStep(t)

ServiceSpec == ServiceInit /\ [][ServiceNext]_vars

(***************************************************************************)
(* The job whose task is cancelled: asyncio raises CancelledError at the   *)
(* await the task is suspended in.                                         *)
(***************************************************************************)
\* the positions from which the next step of scrape suspends the task in an
\* await whose exception no bare except swallows (the notifier calls of
\* lines 153 and 172-173 never suspend; the awaits of _go_to_next_page all
\* sit under the bare excepts of lines 261 and 277)
ScrapeAwaits == {"navigate", "wait_list", "load_page", "pass", "fallback",
                 "details", "settle"}

\* the positions at which the task is suspended outside scrape
TaskAwaits == {"browser", "load_session", "exit_browser"}

\* task.cancel(): CancelledError is no Exception, so it passes the handlers
\* of scrape (lines 145, 230-603) and the except branch of run_scrape_task
\* (line 100); scrape does not return and the task ends
Cancel ==
    /\ pc \in ScrapeAwaits \cup TaskAwaits
    /\ raised' = Exc("CancelledError", "")
    /\ pc' = "cancelled"
    /\ UNCHANGED <<job_store, args, result, walker, pageloop, expander, browser,
                   history, probes, matcher, document, backend>>

CancelNext == Next \/ Cancel

CancelSpec == Init /\ [][CancelNext]_vars

(***************************************************************************)
(* The job whose task is scheduled again and again and whose automation    *)
(* and datastore calls all return or raise: no step that can be taken is   *)
(* put off forever.                                                        *)
(***************************************************************************)
\* the steps of the background task other than the extraction pass
TaskSteps ==
    \/ StartTask
    \/ EnterBrowser
    \/ ConstructAndStart
    \/ Navigate
    \/ WaitForJobsList
    \/ LoadAllJobsOnPage
    \/ FallbackScroll
    \/ FetchJobDetails
    \/ ExtendPage
    \/ GoToNextPage
    \/ Settle
    \/ FinishScrape
    \/ UpdateStatus
    \/ Finalize
    \/ ExitBrowser

\* weak fairness of ExtractPass, written out: the pass can be taken exactly
\* when pc = "pass", and every step from there is a step of it
PassFair == []<>(pc # "pass") \/ []<><<pc = "pass">>_vars

\* the task is run whenever it can go on; nothing forces a submission
FairSpec == Spec /\ WF_vars(TaskSteps) /\ PassFair

(***************************************************************************)
(* Properties.                                                             *)
(***************************************************************************)
\* the positions of the task at which scrape has returned
ScrapeReturned == {"update_status", "save", "exit_browser"} \cup
            (IF raised = NoExc THEN {"done"} ELSE {})

\* the status record of the job
Job == job_store[args.task_id]

NoDuplicates(seq) == \A i, j \in 1..Len(seq) : seq[i] = seq[j] => i = j

IsPrefix(a, b) == Len(a) <= Len(b) /\ SubSeq(b, 1, Len(a)) = a

\* the ids whose cards were in the list during an extraction pass
ShownIds == {id \in JobIds : shown[id] # {}}

\* the first page on which a pass saw a card with this id
FirstPage(id) == CHOOSE p \in shown[id] : \A q \in shown[id] : p <= q

\* the exception of a browser that does not start
BrowserStartFailed == raised.type = "Error"

\* C1 (as stated): for every submitted string that is not one of the
\* collection tokens, the scraper is never constructed: the task ends with a
\* ValueError before any navigation and before any notifier hook.
C1_AnyNonTokenRejected ==
    (pc # "not_created" /\ PyStr(args.collection) \notin JobCollectionValues) =>
        /\ collection = NoneVal
        /\ trace = << >>
        /\ pc \in {"scheduled", "browser", "load_session", "done"}
        /\ (pc = "done" /\ ~BrowserStartFailed => raised.type = "ValueError")

\* C1 (amended): for every submitted string whose lower-cased form is not
\* one of the collection tokens, the scraper is never constructed: the task
\* ends with a ValueError raised by the constructor, before any navigation
\* and before any notifier hook, and the job is failed.
C1_InvalidCollectionRejected ==
    (pc # "not_created"
     /\ \A m \in 1..Len(JobCollectionMembers) :
            JobCollectionMembers[m] # PyStr(str_lower(args.collection))) =>
        /\ collection = NoneVal
        /\ trace = << >>
        /\ pc \in {"scheduled", "browser", "load_session", "done"}
        /\ (pc = "done" /\ ~BrowserStartFailed =>
                /\ raised.type = "ValueError"
                /\ Job.status = "failed")

\* a string that is no token in any case was submitted and the constructor
\* has raised
C1_Witness ==
    /\ pc = "done"
    /\ PyStr(args.collection) = "remote"
    /\ raised.type = "ValueError"
    /\ trace = << >>

\* C2: all_jobs, and the sequence scrape returns, hold each job id at most
\* once, also together with the records of the page being extracted; a
\* record whose card was rendered on several pages sits among the records
\* of the first of these pages.
C2_NoDuplicateIds ==
    /\ NoDuplicates(JobIdsOf(all_jobs))
    /\ NoDuplicates(JobIdsOf(result))
    /\ pc \in {"pass", "fallback", "details", "extend"} =>
           NoDuplicates(JobIdsOf(all_jobs \o jobs_on_page))
    /\ \A i \in 1..Len(all_jobs) :
           /\ shown[all_jobs[i].job_id] # {}
           /\ extracted_on[i] = FirstPage(all_jobs[i].job_id)

\* scrape returned a record whose card was rendered again on the next page
C2_Witness ==
    /\ pc = "done"
    /\ Job.status = "completed"
    /\ \E i \in 1..Len(result) : shown[result[i].job_id] = {1, 2}

\* the ids the loaded pages hold: those the passes saw and those of the
\* cards of the page that is loaded now
AvailableIds == ShownIds \cup CardIds(page_cards)

\* C3 (as stated): whenever the pages loaded during the walk hold more
\* distinct well-formed records than limit, scrape returns exactly limit
\* records, whatever max_pages is.
C3_LimitWheneverAvailable ==
    (pc \in ScrapeReturned /\ Cardinality(AvailableIds) > args.limit) =>
        Len(result) = args.limit

\* C3 (amended): scrape returns exactly limit records when the cards that
\* are in the list during the extraction passes of the pages it visits (at
\* most max_pages of them; a card stays once it is materialized) show at
\* least limit distinct well-formed records, and otherwise all the distinct
\* records they show.
C3_LimitOfVisitedPages ==
    pc \in ScrapeReturned =>
        /\ Len(result) = Min(args.limit, Cardinality(ShownIds))
        /\ Range(JobIdsOf(result)) \subseteq ShownIds

\* the passes saw more distinct records than limit and scrape returned
\* exactly limit of them
C3_Witness ==
    /\ pc = "done"
    /\ Job.status = "completed"
    /\ Cardinality(ShownIds) > args.limit
    /\ Len(result) = args.limit

\* C4 (as stated): the walk has left its page loop only if the total has
\* reached limit, or the pagination attempt found no control to click, or
\* the page counter exceeds max_pages.
C4_ThreeExits ==
    pc = "finish" =>
        \/ Len(all_jobs) >= args.limit
        \/ has_next = "false"
        \/ current_page > args.pages

\* C4 (amended): the walk has left its page loop only if the total has
\* reached limit, or the pagination attempt found no control to click, or
\* the page counter exceeds max_pages, or the extraction of the current
\* page yielded no new record.
C4_FourExits ==
    pc = "finish" =>
        \/ Len(all_jobs) >= args.limit
        \/ has_next = "false"
        \/ current_page > args.pages
        \/ jobs_on_page = << >>

\* the loop was left on a page without new records, below limit and within
\* max_pages, after a successful pagination
C4_Witness ==
    /\ pc = "finish"
    /\ jobs_on_page = << >>
    /\ Len(all_jobs) < args.limit
    /\ has_next = "true"
    /\ current_page <= args.pages

\* C5: a pagination attempt is made only while the total is below limit and
\* the current page number is below max_pages, so that a walk makes at
\* most max_pages - 1 pagination clicks.
C5_NoPaginationOnLastPage ==
    /\ pc = "next_page" =>
           Len(all_jobs) < args.limit /\ current_page < args.pages
    /\ pc # "not_created" => CountCalls(trace, "click") <= args.pages - 1

\* whether the card yields a record with the id
Yields(card, id) ==
    /\ parse_job_card(card, collection) # Nothing
    /\ card_job_id(card) = id

\* the position of the first card of a sequence that yields the id
FirstCard(cards, id) ==
    CHOOSE k \in 1..Len(cards) :
        /\ Yields(cards[k], id)
        /\ \A n \in 1..(k - 1) : ~ Yields(cards[n], id)

\* C6: the output is in extraction order.  No step removes or moves a
\* record of all_jobs; a pass appends its new records to those of the page
\* in the order of their cards; the records of a page join all_jobs behind
\* those of the earlier pages, in their order; scrape returns all_jobs as it
\* stands, so the records of an earlier page precede those of a later one.
C6_ExtractionOrder ==
    /\ [][/\ IsPrefix(all_jobs, all_jobs')
          /\ pc = "pass" =>
                /\ IsPrefix(jobs_on_page, jobs_on_page')
                /\ \A i, j \in (Len(jobs_on_page) + 1)..Len(jobs_on_page') :
                      i < j =>
                        FirstCard(SubSeq(page_cards, 1, rendered),
                                  jobs_on_page'[i].job_id)
                        < FirstCard(SubSeq(page_cards, 1, rendered),
                                    jobs_on_page'[j].job_id)
          /\ pc = "details" => JobIdsOf(jobs_on_page') = JobIdsOf(jobs_on_page)
          /\ pc = "extend" => all_jobs' = all_jobs \o jobs_on_page
          /\ pc = "finish" => result' = all_jobs]_vars
    /\ [](\A i, j \in 1..Len(all_jobs) :
              i < j => FirstPage(all_jobs[i].job_id) <= FirstPage(all_jobs[j].job_id))

\* scrape returned two records that come from two pages
C6_Witness ==
    /\ pc = "done"
    /\ Len(result) = 2
    /\ FirstPage(result[1].job_id) = 1
    /\ FirstPage(result[2].job_id) = 2

\* the three detail fields of a record are absent
NoDetails(job) ==
    /\ job.description = NoneVal
    /\ job.hiring_team = NoneVal
    /\ job.match_analysis = NoneVal

\* C7: with fetch_details the expander is called exactly once for each
\* record scrape returns, in their order, and never otherwise; a record
\* whose expansion returned nothing keeps its id with the three detail
\* fields absent and is emitted all the same, and the records after it are
\* expanded too.
C7_DetailsOncePerRecord ==
    /\ ~args.details => expanded = << >>
    /\ (args.details /\ pc \in {"details", "extend"}) =>
           /\ Len(expanded) = Len(all_jobs) + detail_idx
           /\ detail_idx > 0 =>
                (details = Nothing => NoDetails(jobs_on_page[detail_idx]))
    /\ (args.details /\ pc \in ScrapeReturned) =>
           /\ [i \in 1..Len(expanded) |-> expanded[i].job_id] = JobIdsOf(result)
           /\ \A i \in 1..Len(result) :
                  ~expanded[i].opened => NoDetails(result[i])

\* scrape returned two records: the expansion of the first had failed, the
\* second was expanded and has its description
C7_Witness ==
    /\ pc = "done"
    /\ args.details
    /\ Job.status = "completed"
    /\ Len(result) = 2
    /\ Len(expanded) = 2
    /\ ~expanded[1].opened
    /\ NoDetails(result[1])
    /\ expanded[2].opened
    /\ result[2].description # NoneVal

\* C8: in an expansion that opened the panel, a description extraction that
\* raises leaves description absent while a hiring-team extraction that
\* succeeds is in the result, and a match analysis that raises or finds
\* nothing leaves the extracted description and hiring team in the result;
\* the record takes these fields.
C8_DetailFieldsIndependent ==
    (pc \in {"details", "extend"} /\ detail_idx > 0
     /\ panel.card \in {"by_id", "by_link"}) =>
        LET job == jobs_on_page[detail_idx]
        IN  /\ details # Nothing
            /\ panel.description = "raise" => job.description = NoneVal
            /\ panel.hiring_team = "value" =>
                   /\ details[1].hiring_team = "hiring team of " \o job.job_id
                   /\ job.hiring_team = "hiring team of " \o job.job_id
            /\ panel.description = "value" =>
                   /\ details[1].description = "description of " \o job.job_id
                   /\ job.description = "description of " \o job.job_id
            /\ panel.match_analysis # "value" => job.match_analysis = NoneVal

\* the description extraction raised, the hiring team was extracted, and
\* the record has the hiring team without a description
C8_Witness ==
    /\ pc \in {"details", "extend"}
    /\ detail_idx > 0
    /\ panel.description = "raise"
    /\ panel.hiring_team = "value"
    /\ panel.match_analysis = "raise"
    /\ jobs_on_page[detail_idx].description = NoneVal
    /\ jobs_on_page[detail_idx].hiring_team # NoneVal

\* C9: once an exception has left scrape (or the steps before it), no
\* completion notification has been or will be emitted, the task is over,
\* and the job is failed, never completed, with the text of the exception
\* as its error.
C9_EscapedExceptionFailsJob ==
    raised # NoExc =>
        /\ pc = "done"
        /\ CountCalls(trace, "on_complete") = 0
        /\ result = << >>
        /\ Job.status = "failed"
        /\ Job.error = raised.text
        /\ Job.error \in {"Page.goto: Timeout 30000ms exceeded.",
                          "BrowserType.launch: executable not found",
                          "'remote' is not a valid JobCollection",
                          "'' is not a valid JobCollection"}

\* the navigation to the collection page raised inside scrape, after
\* on_start had made the job running
C9_Witness ==
    /\ pc = "done"
    /\ raised.type = "TimeoutError"
    /\ collection # NoneVal
    /\ CountCalls(trace, "on_start") = 1
    /\ Job.status = "failed"
    /\ Job.error = "Page.goto: Timeout 30000ms exceeded."

\* the moves of a job's state
JobMoves == {<<"pending", "starting">>, <<"starting", "running">>,
             <<"running", "completed">>, <<"starting", "failed">>,
             <<"running", "failed">>}

C11_CompletedJobReport ==
    (pc # "not_created" /\ Job.status = "completed") =>
        /\ Job.jobs_collected = Len(result)
        /\ Len(result) <= args.limit
        /\ Job.message \notin {NoneVal, ""}
        /\ Job.progress = 100

\* a job completed with two records, the saving of which failed
C11_Witness ==
    /\ pc = "done"
    /\ Job.status = "completed"
    /\ Job.jobs_collected = 2
    /\ Len(result) = 2
    /\ Job.message = "Completed (DB save failed)"

\* the notifier hooks of the history, in call order
RECURSIVE Hooks(_)
Hooks(tr) ==
    IF tr = << >> THEN << >>
    ELSE IF Head(tr).call \in {"on_start", "on_progress", "on_complete"}
         THEN <<Head(tr)>> \o Hooks(Tail(tr))
         ELSE Hooks(Tail(tr))

\* C16: once scrape has returned, the notifier has received exactly one
\* on_start, before every other hook, and exactly one on_complete, after
\* every other hook, with exactly the records scrape returned (at most
\* limit); the hook before it is an on_progress of 100 percent.
C16_NotifierProtocol ==
    pc \in ScrapeReturned =>
        LET hooks == Hooks(trace)
            n == Len(hooks)
        IN  /\ CountCalls(trace, "on_start") = 1
            /\ CountCalls(trace, "on_complete") = 1
            /\ n >= 4
            /\ hooks[1].call = "on_start"
            /\ hooks[n].call = "on_complete"
            /\ hooks[n].arg = result
            /\ Len(result) <= args.limit
            /\ hooks[n - 1].call = "on_progress"
            /\ hooks[n - 1].arg = ToStr(100)
            /\ \A i \in 2..(n - 1) : hooks[i].call = "on_progress"

\* a walk over two pages returned two records: four progress reports lie
\* between its on_start and its on_complete
C16_Witness ==
    /\ pc \in ScrapeReturned
    /\ Len(result) = 2
    /\ current_page = 2
    /\ CountCalls(trace, "on_progress") >= 4
    /\ trace[Len(trace)].call = "on_complete"
    /\ trace[Len(trace)].arg = result

\* C19: without fetch_details no detail view is ever opened, and every
\* record collected or returned has description, hiring_team and
\* match_analysis absent; the three fields of a record change only in the
\* detail-expansion step.
C19_NoDetailsUnlessAsked ==
    /\ [][(pc # "not_created" /\ ~ args.details) =>
             /\ expanded' = << >>
             /\ pc' # "details"
             /\ \A i \in 1..Len(jobs_on_page') : NoDetails(jobs_on_page'[i])
             /\ \A i \in 1..Len(all_jobs') : NoDetails(all_jobs'[i])
             /\ \A i \in 1..Len(result') : NoDetails(result'[i])]_vars
    /\ [][\A i \in 1..Len(jobs_on_page) :
             (i <= Len(jobs_on_page') /\ jobs_on_page'[i] # jobs_on_page[i]
              /\ jobs_on_page'[i].job_id = jobs_on_page[i].job_id)
                => (pc = "details" /\ detail_idx' = i)]_vars

\* a walk without fetch_details returned two records and opened nothing
C19_Witness ==
    /\ pc \in ScrapeReturned
    /\ ~ args.details
    /\ Len(result) = 2
    /\ expanded = << >>
    /\ \A i \in 1..2 : NoDetails(result[i])

\* C17: the page population never raises.  When the structured pass
\* raises, the fallback scroll runs: five presses when none raises, and
\* when one raises the scroll stops there and the error goes no further.
\* In every case the walker goes on to its extraction passes, with no
\* exception and the job untouched.
C17_PopulationNeverRaises ==
    /\ [](scrolled # NoScroll =>
            /\ pc = "pass"
            /\ raised = NoExc
            /\ ~ scrolled.raised
            /\ scrolled.structured = "ok" => scrolled.presses = 0
            /\ (scrolled.structured = "raise" /\ scrolled.fail_at = 0) =>
                   scrolled.presses = NumFallbackPresses
            /\ (scrolled.structured = "raise" /\ scrolled.fail_at # 0) =>
                   scrolled.presses = scrolled.fail_at)
    /\ [][(pc \in {"load_page", "fallback"}) =>
             (/\ raised' = NoExc
              /\ pc' # "done"
              /\ job_store' = job_store)]_vars
    /\ [][pc = "load_page" => pc' = "pass"]_vars

\* the structured pass raised and so did the second press of the fallback
\* scroll; the walker is at its first extraction pass on a page that shows
\* a card
C17_Witness ==
    /\ pc = "pass"
    /\ scrolled.structured = "raise"
    /\ scrolled.fail_at = 2
    /\ scrolled.presses = 2
    /\ rendered > 0
    /\ raised = NoExc
    /\ Job.status = "running"

\* C18: the readiness wait tries the container selectors in order and
\* returns at the first that shows up; when none does it has tried them
\* all and returns all the same: no exception, the job untouched, and the
\* walker goes on to populate the page.
C18_ReadinessWaitDegrades ==
    /\ [](waited # NoWait =>
            /\ pc = "load_page"
            /\ raised = NoExc
            /\ ~ waited.raised
            /\ waited.appears = {} =>
                   (waited.found = 0 /\ waited.tried = NumContainerSelectors)
            /\ waited.appears # {} =>
                   /\ waited.found \in waited.appears
                   /\ \A i \in waited.appears : waited.found <= i
                   /\ waited.tried = waited.found)
    /\ [][pc = "wait_list" =>
             (/\ pc' = "load_page"
              /\ raised' = NoExc
              /\ job_store' = job_store)]_vars

\* no container showed up: all five selectors were waited for and the
\* walker is about to populate the page, whose list holds cards
C18_Witness ==
    /\ pc = "load_page"
    /\ waited.appears = {}
    /\ waited.tried = NumContainerSelectors
    /\ waited.found = 0
    /\ Len(page_cards) > 0
    /\ raised = NoExc
    /\ Job.status = "running"

(***************************************************************************)
(* The card parser.                                                        *)
(***************************************************************************)
\* the only card of a one-card list
OnlyCard == page_cards[1]

\* a one-card list has been parsed with nothing seen before
ParsedOne ==
    /\ pc = "parsed"
    /\ Len(page_cards) = 1
    /\ seen_job_ids = {}

\* the card has an identifier in its attribute or in its link
HasIdentifier(card) == card_job_id(card) \in JobIds

\* some field locator of the card raises
FieldRaises(card) ==
    \/ ElemRaises \in {card.title, card.company, card.location, card.footer}
    \/ card.easy_apply = RaiseVal

\* C12: every record the card parser emits has a non-empty identifier, the
\* one of the card's attribute or else of its link; a card for which
\* neither yields an identifier gives no record at all.  Hence no record
\* collected or returned has a null, empty or placeholder id.
C12_RecordsHaveIdentifier ==
    /\ \A i \in 1..Len(jobs_on_page) : jobs_on_page[i].job_id \in JobIds
    /\ \A i \in 1..Len(all_jobs) : all_jobs[i].job_id \in JobIds
    /\ \A i \in 1..Len(result) : result[i].job_id \in JobIds
    /\ ParsedOne =>
          /\ ~ HasIdentifier(OnlyCard) => jobs_on_page = << >>
          /\ jobs_on_page # << >> =>
                 jobs_on_page[1].job_id = card_job_id(OnlyCard)

\* a card whose attribute is empty and whose link carries the identifier
\* has been parsed into a record with that identifier
C12_Witness ==
    /\ ParsedOne
    /\ OnlyCard.data_job_id = ""
    /\ OnlyCard.link_view_id = "102"
    /\ Len(jobs_on_page) = 1
    /\ jobs_on_page[1].job_id = "102"

\* the positions of the cards that yield a record not seen before
GoodCards ==
    {k \in 1..Len(page_cards) :
        /\ parse_job_card(page_cards[k], collection) # Nothing
        /\ card_job_id(page_cards[k]) \notin seen_job_ids}

\* parsing the card raises somewhere
CardRaises(card) ==
    \/ FieldRaises(card)
    \/ card.data_job_id \in {NoneVal, ""} /\ card.link_view_id = RaiseVal

\* C13: a failure while parsing one card does not propagate.  The pass
\* returns the records of the cards that parse, in card order, those before
\* and those after a failing card alike, up to its limit.
C13_CardFailureSkipsCard ==
    pc = "parsed" =>
        /\ Len(jobs_on_page) = Min(args.limit, Cardinality(GoodCards))
        /\ \A i \in 1..Len(jobs_on_page) :
              \E k \in GoodCards :
                 /\ jobs_on_page[i].job_id = card_job_id(page_cards[k])
                 /\ Cardinality({n \in GoodCards : n < k}) = i - 1

\* a pass over three cards, the middle one failing, returned the records
\* of the first and of the third
C13_Witness ==
    /\ pc = "parsed"
    /\ Len(page_cards) = 3
    /\ CardRaises(page_cards[2])
    /\ JobIdsOf(jobs_on_page) = <<"102", "103">>
    /\ card_job_id(page_cards[1]) = "102"
    /\ card_job_id(page_cards[3]) = "103"

\* C14: a locator exception while resolving one field of a card does not
\* abort the parse of the card: the card is still emitted with its
\* identifier.
C14_FieldFailureKeepsCard ==
    (ParsedOne /\ HasIdentifier(OnlyCard) /\ FieldRaises(OnlyCard)) =>
        /\ Len(jobs_on_page) = 1
        /\ jobs_on_page[1].job_id = card_job_id(OnlyCard)

\* C15: a card with an identifier whose footer region is missing or empty
\* is emitted with promoted and actively_hiring false.
C15_FlagsDefaultToFalse ==
    (/\ ParsedOne /\ HasIdentifier(OnlyCard) /\ ~ FieldRaises(OnlyCard)
     /\ OnlyCard.footer \in {NoElem, << >>}) =>
        /\ Len(jobs_on_page) = 1
        /\ jobs_on_page[1].promoted = FALSE
        /\ jobs_on_page[1].actively_hiring = FALSE

(***************************************************************************)
(* The match analysis.                                                     *)
(***************************************************************************)
\* the lines of the response as the page shows them
TextLines == str_split(analysis_text, <<LineFeed>>)

\* the trimmed entries of the lines of the response that start with the
\* bullet and say something after it
RECURSIVE BulletEntries(_, _)
BulletEntries(lines, bullet) ==
    IF lines = << >> THEN << >>
    ELSE LET line == str_strip(Head(lines))
         IN  IF line # << >> /\ Head(line) = bullet /\ str_strip(Tail(line)) # << >>
             THEN <<str_strip(Tail(line))>> \o BulletEntries(Tail(lines), bullet)
             ELSE BulletEntries(Tail(lines), bullet)

\* the response of the example: the count line, two checkmark lines and one
\* question-mark line
ExampleText ==
    str_join_lines(<<CountLine,
                     <<CheckMark, " ", "S", "Q", "L">>,
                     <<" ", CheckMark, " ", "G", "o", " ">>,
                     <<QuestionMark, " ", "A", "W", "S">>>>, <<LineFeed>>)

\* C20: the parse of a response gives the matched (missing) qualifications
\* as the entries of its checkmark (question-mark) lines, bullet removed
\* and trimmed, in source order, as many as there are such non-empty
\* lines; the example with the count line, two checkmark lines and one
\* question-mark line gives 2 of 5, two matched and one missing.
C20_MatchAnalysisParse ==
    (pc = "matched" /\ analysis # Nothing
     /\ ~ str_in(SplitSeparator, analysis_text)) =>
        /\ analysis[1].matched_qualifications = BulletEntries(TextLines, CheckMark)
        /\ analysis[1].missing_qualifications = BulletEntries(TextLines, QuestionMark)
        /\ analysis_text = ExampleText =>
               /\ analysis[1].total_matched = 2
               /\ analysis[1].total_required = 5
               /\ Len(analysis[1].matched_qualifications) = 2
               /\ Len(analysis[1].missing_qualifications) = 1

\* the text a cascade takes from an element: trimmed, the leading header
\* phrase removed
CascadeText(elem) ==
    LET text == str_strip(elem)
    IN  IF str_startswith(text, AboutTheJob)
        THEN str_strip(SubSeq(text, Len(AboutTheJob) + 1, Len(text)))
        ELSE text

\* the value of the first candidate from k on that has an element whose
\* text is not empty, None when there is none
RECURSIVE FirstQualifying(_, _)
FirstQualifying(elems, k) ==
    IF k > Len(elems) THEN NoneVal
    ELSE IF elems[k] \notin {NoElem, ElemRaises} /\ CascadeText(elems[k]) # << >>
    THEN PyStr(CascadeText(elems[k]))
    ELSE FirstQualifying(elems, k + 1)

\* C21: a field resolved through an ordered candidate list is the trimmed
\* text of the first candidate that has an element with a non-empty trimmed
\* text, absent when no candidate qualifies, and never an empty string
\* (here: the description of an expansion that opened the detail view).
C21_CascadeFirstNonEmpty ==
    (pc = "expanded" /\ details # Nothing) =>
        /\ details[1].description = FirstQualifying(document.description, 1)
        /\ details[1].description # ""

\* the href has a match of /view/<digits> whose digit run is ds
ViewDigits(href, ds) ==
    \E i \in 1..Len(href) :
        /\ re_lit(href, i, ViewPath \o ds)
        /\ ds # << >> /\ \A k \in 1..Len(ds) : ds[k] \in ReDigit
        /\ ~ (i + Len(ViewPath \o ds) <= Len(href)
              /\ href[i + Len(ViewPath \o ds)] \in ReDigit)
        /\ \A j \in 1..(i - 1) :
              ~ (re_lit(href, j, ViewPath)
                 /\ j + Len(ViewPath) <= Len(href)
                 /\ href[j + Len(ViewPath)] \in ReDigit)

\* the href of the example
ExampleHref ==
    <<"/", "j", "o", "b", "s">> \o ViewPath
    \o <<"1", "2", "3", "4", "5", "6", "7", "8", "9">>
    \o <<"/", "?", "x", "=", "1">>

HasText(elem) == elem \notin {NoElem, ElemRaises} /\ str_strip(elem) # << >>

\* a candidate card without a resolvable name: no name element text and no
\* profile-link text
Nameless(card) == ~ HasText(card.name_elem) /\ ~ HasText(card.name_link)

\* the names a candidate card can be entered under
NamesOf(card) ==
    {PyStr(str_strip(e)) : e \in {x \in {card.name_elem, card.name_link} : HasText(x)}}

\* the members of the hiring team an expansion returned
Members == IF details[1].hiring_team = Nothing THEN << >>
           ELSE details[1].hiring_team[1]

\* the candidate cards of the panel that are not nameless
NamedCards == {k \in 1..Len(document.hirer_cards) : ~ Nameless(document.hirer_cards[k])}

\* C23: a candidate hiring-team card without a resolvable name contributes
\* no entry, the other cards of the panel are still processed (a readable
\* card with a name element text is entered under it, wherever the nameless
\* cards stand), and every entry of a returned hiring team has a non-empty
\* name.
C23_NamelessHirerSkipped ==
    (pc = "expanded" /\ details # Nothing) =>
        /\ \A i \in 1..Len(Members) : Members[i].name # ""
        /\ Len(Members) <= Cardinality(NamedCards)
        /\ \A i \in 1..Len(Members) :
              \E k \in NamedCards : Members[i].name \in NamesOf(document.hirer_cards[k])
        /\ \A k \in 1..Len(document.hirer_cards) :
              LET card == document.hirer_cards[k]
              IN  (HasText(card.name_elem) /\ card.rest = "ok") =>
                      \E i \in 1..Len(Members) :
                          Members[i].name = PyStr(str_strip(card.name_elem))
        /\ details[1].hiring_team # Nothing => Members # << >>

C23_Witness ==
    /\ pc = "expanded"
    /\ details # Nothing
    /\ Len(document.hirer_cards) = 2
    /\ Nameless(document.hirer_cards[1])
    /\ document.hirer_cards[2] = HirerCard(<<"A", "n", "n">>, NoElem, "ok")
    /\ Members = <<[name |-> "Ann"]>>

\* the token a submitted collection string is accepted as
AcceptedToken == PyStr(str_lower(args.collection))

\* C24: for every accepted collection token, the address the walker
\* navigates to, which is also the one it reports in on_start, is
\* 'https://www.linkedin.com/jobs/collections/' followed by the token and
\* a '/'.
C24_DestinationAddress ==
    /\ \A i \in 1..Len(trace) :
          trace[i].call \in {"on_start", "goto"} =>
              /\ AcceptedToken \in JobCollectionValues
              /\ trace[i].arg = "https://www.linkedin.com/jobs/collections/"
                                \o AcceptedToken \o "/"
    /\ (pc = "navigate" /\ AcceptedToken \in JobCollectionValues) =>
          CountCalls(trace, "on_start") = 1
    /\ pc \in {"wait_list", "finish"} => CountCalls(trace, "goto") = 1

C24_Witness ==
    /\ pc = "wait_list"
    /\ args.collection = <<"e", "a", "s", "y", "-", "a", "p", "p", "l", "y">>
    /\ trace[1] = Event("on_start",
                        "https://www.linkedin.com/jobs/collections/easy-apply/")
    /\ trace[2] = Event("goto",
                        "https://www.linkedin.com/jobs/collections/easy-apply/")

\* the positions of the per-page extraction loop
InPassLoop == {"pass", "fallback"}

\* what the page may still contribute: limit minus running total
PageQuota == args.limit - Len(all_jobs)

\* C25: the per-page loop follows one run of the population driver and does
\* not run it again; a pass that adds no record is followed by exactly one
\* fallback scroll and raises the consecutive counter by one, a pass that
\* adds a record resets the counter to 0 and is followed by no scroll; the
\* loop goes on exactly while the quota (limit minus running total) is not
\* filled and fewer than 5 consecutive passes added nothing; it never
\* holds more records than the quota.
C25_PassLoop ==
    /\ [](pc \in InPassLoop => Len(jobs_on_page) <= PageQuota)
    /\ [][(pc' = "pass" /\ pc \notin InPassLoop) =>
              (pc = "load_page" /\ jobs_on_page' = << >>
               /\ no_new_jobs_count' = 0)]_vars
    /\ [][(pc \in InPassLoop) => (pc' # "load_page")]_vars
    /\ [][(pc' = "fallback") =>
              (pc = "pass" /\ jobs_on_page' = jobs_on_page)]_vars
    /\ [][(pc = "pass" /\ Len(jobs_on_page') = Len(jobs_on_page)) =>
              (pc' = "fallback"
               /\ no_new_jobs_count' = no_new_jobs_count + 1)]_vars
    /\ [][(pc = "pass" /\ Len(jobs_on_page') > Len(jobs_on_page)) =>
              (pc' # "fallback" /\ no_new_jobs_count' = 0)]_vars
    /\ [][(pc = "fallback") =>
              (pc' # "fallback" /\ jobs_on_page' = jobs_on_page
               /\ no_new_jobs_count' = no_new_jobs_count)]_vars
    /\ [][(pc \in InPassLoop /\ pc' = "pass") =>
              (Len(jobs_on_page') < PageQuota /\ no_new_jobs_count' < 5)]_vars
    /\ [][(pc \in InPassLoop /\ pc' \notin InPassLoop) =>
              (Len(jobs_on_page') >= PageQuota \/ no_new_jobs_count' = 5)]_vars

\* a page gave one record and then five passes in a row that added nothing
C25_Witness ==
    /\ pc = "extend"
    /\ no_new_jobs_count = 5
    /\ Len(jobs_on_page) = 1
    /\ PageQuota = 2

\* the pagination attempt has been made
Paginated == pc \in {"settle", "finish"} /\ has_next # "unset"

\* locator j finds a control that is not disabled and can be clicked
Clickable(j) ==
    /\ document[j].present
    /\ document[j].disabled = NoneVal
    /\ document[j].click = "ok"

\* C26: a pagination attempt clicks at most one control, namely the first,
\* in the order "next page" locators then "load more" locators, that
\* exists, is not disabled and can be clicked; it never clicks a disabled
\* control; it reports success if and only if it clicked; when no control
\* qualifies it clicks nothing and the walk leaves its loop.
C26_FirstEnabledControlWins ==
    Paginated =>
        LET n == NumNextSelectors + NumSeeMoreSelectors
        IN  /\ CountCalls(trace, "click") <= 1
            /\ (CountCalls(trace, "click") = 1) = (clicked # 0)
            /\ clicked # 0 =>
                  /\ Clickable(clicked)
                  /\ \A j \in 1..(clicked - 1) : ~ Clickable(j)
            /\ clicked # 0 => document[clicked].disabled = NoneVal
            /\ (has_next = "true") = (clicked # 0)
            /\ (\A j \in 1..n : ~ Clickable(j)) =>
                  /\ clicked = 0
                  /\ pc = "finish"

\* the button of the detail view is visible in one of the polling rounds
ButtonShowsUp == document.show_button.visible_from \in 1..6

\* C27: an expansion that opened the detail view polls for the "show match
\* details" button for at most 6 rounds; when the button is visible in none
\* of them, nothing is clicked, match_analysis is absent and the expansion
\* still returns the description and the hiring team it extracted; when
\* the button is found, polling stops with that round and the button is
\* clicked exactly once.
C27_MatchButtonPolling ==
    (pc = "expanded" /\ details # Nothing) =>
        /\ CountCalls(trace, "poll") <= 6
        /\ ~ ButtonShowsUp =>
              /\ CountCalls(trace, "poll") = 6
              /\ CountCalls(trace, "show") = 0
              /\ details[1].match_analysis = Nothing
              /\ details[1].description =
                     extract_job_description_loop(document.description, 1)
              /\ details[1].hiring_team =
                     extract_hiring_team_cards(document.hirer_cards)
        /\ ButtonShowsUp =>
              /\ CountCalls(trace, "poll") = document.show_button.visible_from
              /\ CountCalls(trace, "show") = 1

\* the button never shows up on a view with a description: six rounds, no
\* click, and the description is returned
C27_Witness ==
    /\ pc = "expanded"
    /\ details # Nothing
    /\ document.show_button.visible_from = 0
    /\ CountCalls(trace, "poll") = 6
    /\ CountCalls(trace, "show") = 0
    /\ details[1].description = "Go"
    /\ details[1].match_analysis = Nothing

\* the calls of the three extractions and of the match-analysis flow
ExtractionCalls == {"description", "hiring_team", "match_analysis", "poll", "show"}

\* C28: when the card of a record is found neither by its id attribute nor
\* by its link, or finding or clicking it raises, the expansion returns
\* absent without running any of the three extractions, and the three
\* detail fields of the record stay absent, whatever the detail panel of
\* the page shows.
C28_UnopenedCardNoDetails ==
    (pc = "expanded" /\ document.card \in {"missing", "raises"}) =>
        /\ details = Nothing
        /\ \A i \in 1..Len(trace) : trace[i].call \notin ExtractionCalls
        /\ NoDetails(jobs_on_page[1])

\* the card is not found while the panel of the page shows a description
C28_Witness ==
    /\ pc = "expanded"
    /\ document.card = "missing"
    /\ document.description[1] = <<"G", "o">>
    /\ details = Nothing
    /\ trace = << >>
    /\ NoDetails(jobs_on_page[1])

\* C29: after a structured population pass that went through, the list
\* container is back at its top when the extraction passes start.
C29_ScrollResetToTop ==
    (pc = "pass" /\ scrolled.structured = "ok") => scrolled.scroll_top = 0

\* the trimmed text of the first fragment from k on that contains one of
\* the keywords, None when there is none
RECURSIVE FirstFragment(_, _, _)
FirstFragment(fragments, k, keywords) ==
    IF k > Len(fragments) THEN NoneVal
    ELSE IF \E t \in keywords : str_in(t, str_lower(fragments[k]))
    THEN PyStr(str_strip(fragments[k]))
    ELSE FirstFragment(fragments, k + 1, keywords)

\* C30: employment type and workplace type of a card are each the first
\* metadata fragment, in card order, that contains a keyword of the
\* category; a later fragment of the same category does not replace it.
C30_FirstFragmentWins ==
    (pc = "classified" /\ \A k \in 1..Len(document) : document[k] # ElemRaises) =>
        /\ jobs_on_page[1].employment_type
               = FirstFragment(document, 1, EmploymentKeywords)
        /\ jobs_on_page[1].workplace_type
               = FirstFragment(document, 1, WorkplaceKeywords)

\* C31: in every state of every job, the progress of its status record is
\* an integer from 0 to 100, however many pages the walk has visited.
C31_ProgressInRange ==
    \A t \in DOMAIN job_store : job_store[t].progress \in 0..100

\* the progress reported for the sixth page of a walk, where 20 + 15 * 6
\* is above 100, is 90
C31_Witness ==
    /\ pc = "next_page"
    /\ current_page = 6
    /\ Len(all_jobs) = 6
    /\ CountCalls(trace, "on_progress") = 7
    /\ Job.progress = 90

\* the save of the records failed: no client, or the upsert raised
SaveFailed == db.upsert \in {"skipped", "raises"}

\* C32: a failed datastore upsert (no client, or the upsert raising) does
\* not fail the job: upsert_jobs returns False, and the job ends completed
\* with jobs_collected set, no error and the message of a failed save; a
\* job is failed exactly when an exception left the orchestration, and none
\* does once upsert_jobs is called.
C32_SaveFailureKeepsJob ==
    /\ \A client \in {"client", "None"}, execute \in UpsertOutcomes :
          (client = "None" \/ execute = "raises") =>
              upsert_jobs(client, execute) = Returned(FALSE)
    /\ SaveFailed =>
          /\ pc \in {"exit_browser", "done"}
          /\ raised = NoExc
          /\ Job.status = "completed"
          /\ Job.jobs_collected = Len(result)
          /\ Job.error = NoneVal
          /\ Job.message = "Completed (DB save failed)"
    /\ pc # "not_created" => (Job.status = "failed" <=> raised # NoExc)
    /\ db.upsert # "not called" => raised = NoExc

\* a job that collected two records is over, completed, after the upsert
\* raised
C32_Witness ==
    /\ pc = "done"
    /\ db = [client |-> "client", upsert |-> "raises"]
    /\ Job.status = "completed"
    /\ Job.jobs_collected = 2
    /\ Job.message = "Completed (DB save failed)"

\* the record of job t is new or differs after the step
Written(t) == t \notin DOMAIN job_store \/ job_store'[t] # job_store[t]

\* the step is one of job t: its submission, or a step of its task
StepOf(t) == t \notin DOMAIN tasks \/ tasks'[t] # tasks[t]

\* the positions of a task inside scrape after on_start
InWalk == {"navigate", "page", "finish"}

\* C33: the record of a job is written only in steps of that job (its
\* submission, the start, finalization and failure steps of its task and
\* the notifier calls of its walk), a step of one job leaves the record and
\* the task of every other job as they were, and a walk that goes on
\* writes message, progress and updated_at, nothing else.
C33_JobsDoNotInterfere ==
    [][\A t \in DOMAIN job_store' :
          /\ Written(t) =>
                /\ t \in DOMAIN tasks'
                /\ StepOf(t)
                /\ \A u \in DOMAIN job_store \ {t} :
                      job_store'[u] = job_store[u] /\ tasks'[u] = tasks[u]
          /\ (t \in DOMAIN tasks /\ tasks[t].pc \in InWalk /\ tasks'[t].pc # "done") =>
                \A f \in {"id", "status", "collection", "jobs_collected", "error",
                          "created_at"} :
                    job_store'[t][f] = job_store[t][f]]_vars

\* two jobs side by side: the first is completed while the walk of the
\* second has just navigated
C33_Witness ==
    /\ DOMAIN tasks = {"task-1", "task-2"}
    /\ tasks["task-1"].pc = "done"
    /\ job_store["task-1"].status = "completed"
    /\ job_store["task-1"].progress = 100
    /\ tasks["task-2"].pc = "page"
    /\ job_store["task-2"].status = "running"
    /\ job_store["task-2"].progress = 10

\* C34: when the task of a walk is cancelled after at least one record
\* was parsed completely, the records parsed so far reach the caller: the
\* records accumulated over the pages done are handed to run_scrape_task,
\* and the job counts them.
C34_CancelledWalkKeepsRecords ==
    (pc = "cancelled" /\ all_jobs # << >>) =>
        /\ IsPrefix(Take(all_jobs, args.limit), result)
        /\ Job.jobs_collected >= Len(Take(all_jobs, args.limit))

\* the positions of the task inside scrape
InScrape == {"navigate", "wait_list", "load_page", "pass", "fallback", "details",
             "extend", "next_page", "settle", "finish"}

\* C35: at every point of a walk all_jobs holds at most limit records,
\* their ids are pairwise distinct and all in seen_job_ids, and
\* seen_job_ids only grows; so the truncation of line 170 removes nothing,
\* and every record that was expanded is in what scrape returns.
C35_AccumulatedWithinLimit ==
    /\ [](pc \in InScrape =>
            /\ Len(all_jobs) <= args.limit
            /\ NoDuplicates(JobIdsOf(all_jobs))
            /\ Range(JobIdsOf(all_jobs)) \subseteq seen_job_ids)
    /\ [][seen_job_ids \subseteq seen_job_ids']_vars
    /\ [][(pc = "finish") => (all_jobs' = all_jobs)]_vars
    /\ [](pc \in {"update_status", "save", "exit_browser"} =>
            \A i \in 1..Len(expanded) :
                expanded[i].job_id \in Range(JobIdsOf(result)))

\* a walk with details took one record on each of two pages, expanded
\* both, and returned both
C35_Witness ==
    /\ pc = "update_status"
    /\ args.details
    /\ args.limit = 2
    /\ current_page = 2
    /\ extracted_on = <<1, 2>>
    /\ Len(expanded) = 2
    /\ Len(result) = 2

\* the positions of the task inside the body of the page loop
InPageLoop == {"wait_list", "load_page", "pass", "fallback", "details", "extend",
               "next_page"}

\* C36: whatever the page shows, when every automation call returns or
\* raises, scrape comes to an end; the body of the page loop runs for
\* pages 1..max_pages only, and a pass of the extraction loop is entered
\* after at most 4 passes in a row that added nothing, the fifth of which
\* ends the loop.
C36_ScrapeTerminates ==
    /\ [](pc \in InScrape => <>(pc \notin InScrape))
    /\ [](pc \in InPageLoop => current_page \in 1..args.pages)
    /\ [](pc = "pass" => no_new_jobs_count < max_no_new_jobs)
    /\ [](no_new_jobs_count <= max_no_new_jobs)

\* scrape has returned after a second page on which five passes in a row
\* added nothing
C36_Witness ==
    /\ pc = "update_status"
    /\ current_page = 2
    /\ no_new_jobs_count = max_no_new_jobs
    /\ Len(result) = 1

\* the states in which a job is over
TerminalStates == {"completed", "failed"}

C38_JobEventuallyOver ==
    [](pc # "not_created" =>
          <>(pc # "not_created" /\ Job.status \in TerminalStates))

\* a job is over, completed, after a walk of two pages the second of which
\* gave nothing, and after its record was saved
C38_Witness ==
    /\ pc = "done"
    /\ current_page = 2
    /\ Job.status = "completed"
    /\ Job.jobs_collected = 1
    /\ db.upsert = "ok"

\* C39: over the life of a job the progress in its status record never
\* decreases: every write, by a progress callback or by the finalization,
\* stores a value at least as large as the one stored before.
C39_ProgressNeverDecreases ==
    [][\A t \in DOMAIN job_store :
          /\ t \in DOMAIN job_store'
          /\ job_store'[t].progress >= job_store[t].progress]_vars

\* C40: from the moment create_scrape_job returns, the store holds a record
\* under the id of the job, pending at first; the record is never removed,
\* and its id, collection and created_at stay what they were at submission.
C40_SubmissionFieldsKept ==
    [][/\ \A t \in DOMAIN job_store' \ DOMAIN job_store :
              job_store'[t].status = "pending"
       /\ \A t \in DOMAIN job_store :
              /\ t \in DOMAIN job_store'
              /\ job_store'[t].id = job_store[t].id
              /\ job_store'[t].collection = job_store[t].collection
              /\ job_store'[t].created_at = job_store[t].created_at]_vars

====
